---------------------------- MODULE Spec2Model ----------------------------
(***************************************************************************)
(* A model of the music-fingerprint core: the fingerprint record and its   *)
(* text codec (src/src/fplib.c), the similarity kernels, the union keys    *)
(* and the GiST index operators (src/unnamed/part_002, pgfprint.c).        *)
(*                                                                         *)
(* Conventions.                                                            *)
(*  - A byte is a number in 0..255.  A 32-bit unsigned word is a pair      *)
(*    <<hi, lo>> of 16-bit halves, because the model checker's integers    *)
(*    are 32-bit signed.  An int32_t value is an Int in -2^31 .. 2^31-1.   *)
(*  - float/double scores are fixed-point numbers in millionths (SCALE);   *)
(*    every division truncates toward zero, as C does.                     *)
(*  - A record in memory is [cprint_len, songlen, bit_rate, num_errors,    *)
(*    r, dom, cprint]; Len(cprint) is the allocated buffer.  A union key   *)
(*    is the same memory read through FPrintUnion: min_songlen aliases     *)
(*    songlen and max_songlen aliases num_errors.                          *)
(***************************************************************************)
EXTENDS Integers, Sequences, FiniteSets, TLC

\* ------------------------------------------------------------------------
\* Program constants
\* ------------------------------------------------------------------------
R_SIZE == 348
DOM_SIZE == 66
R_SIZE32 == R_SIZE \div 4
DOM_LEN32 == DOM_SIZE \div 4
DOM_END16 == DOM_SIZE \div 2 - 1
CHAR_BIT == 8
MAX_RDIFF == 9 * R_SIZE * CHAR_BIT
MAX_DOMDIFF == DOM_SIZE * CHAR_BIT
MAX_TOTDIFF == MAX_RDIFF + MAX_DOMDIFF
KNOWN_CPRINT_LEN == 948
MAX_KEY_CP_LEN == 240

\* Fixed-point unit of the float/double scores (millionths).
SCALE == 10 ^ 6
FP_EXACT_CUTOFF == (98 * SCALE) \div 100
FP_MATCH_CUTOFF == (6 * SCALE) \div 10

FP_ISNEQ(val) == val <= FP_EXACT_CUTOFF
FP_ISEQ(val) == val > FP_EXACT_CUTOFF
FP_ISMATCH(val) == val > FP_MATCH_CUTOFF

\* ------------------------------------------------------------------------
\* Machine arithmetic
\* ------------------------------------------------------------------------
Pow2(n) == 2 ^ n
TwoTo16 == Pow2(16)

\* "v; e": the value of e, with v evaluated first.  An operator's arguments
\* are evaluated at their first use, possibly deep inside its body; After
\* evaluates an argument on entry instead, as a C call does.
After(v, e) == IF v = v THEN e ELSE e

\* x & y for two values of w bits, w a power of two: the AND of the high
\* halves and the AND of the low halves.
RECURSIVE BitAndW(_, _, _)
BitAndW(x, y, w) ==
  IF x = 0 \/ y = 0 THEN 0
  ELSE IF x = y THEN x
  ELSE Pow2(w \div 2)
         * BitAndW(x \div Pow2(w \div 2), y \div Pow2(w \div 2), w \div 2)
       + BitAndW(x % Pow2(w \div 2), y % Pow2(w \div 2), w \div 2)

\* The bitwise operators on 16-bit values.
BitAnd(x, y) == BitAndW(x, y, 16)

BitOr(x, y) == x + y - BitAnd(x, y)
BitXor(x, y) == x + y - 2 * BitAnd(x, y)

\* 32-bit unsigned words as <<hi, lo>>.
Hi(w) == w[1]
Lo(w) == w[2]
Zero32 == <<0, 0>>
And32(x, y) == <<BitAnd(Hi(x), Hi(y)), BitAnd(Lo(x), Lo(y))>>
Or32(x, y) == <<BitOr(Hi(x), Hi(y)), BitOr(Lo(x), Lo(y))>>
Xor32(x, y) == <<BitXor(Hi(x), Hi(y)), BitXor(Lo(x), Lo(y))>>

\* x >> n for 0 <= n < 32.
Shr32(x, n) ==
  IF n >= 16 THEN <<0, Hi(x) \div Pow2(n - 16)>>
  ELSE <<Hi(x) \div Pow2(n),
         (Lo(x) \div Pow2(n)) + (Hi(x) % Pow2(n)) * Pow2(16 - n)>>

\* x + y and x - y modulo 2^32.
Add32(x, y) ==
  <<(Hi(x) + Hi(y) + (Lo(x) + Lo(y)) \div TwoTo16) % TwoTo16,
    (Lo(x) + Lo(y)) % TwoTo16>>

Sub32(x, y) ==
  <<(Hi(x) - Hi(y) + (Lo(x) - Lo(y)) \div TwoTo16) % TwoTo16,
    (Lo(x) - Lo(y)) % TwoTo16>>

\* -x modulo 2^32.
Neg32(x) == Sub32(Zero32, x)

\* The 32-bit product of two 16-bit halves, as <<hi, lo>>: a * b is
\* p1 + 256 * p2 with p1 = a * (b % 256) and p2 = a * (b / 256).
MulParts(p1, p2) ==
  After(p2,
  <<((p1 + (p2 % 256) * 256) \div TwoTo16 + p2 \div 256) % TwoTo16,
    (p1 + (p2 % 256) * 256) % TwoTo16>>)

Mul16(a, b) == MulParts(a * (b % 256), a * (b \div 256))

\* x * y modulo 2^32, from the three partial products that reach it.
MulSum(ll, lh, hl) ==
  After(ll, <<(Hi(ll) + Lo(lh) + Lo(hl)) % TwoTo16, Lo(ll)>>)

Mul32(x, y) ==
  MulSum(Mul16(Lo(x), Lo(y)), Mul16(Lo(x), Hi(y)), Mul16(Hi(x), Lo(y)))

\* The bits of an int32_t read as uint32_t, and the uint16_t halves of it.
U32(i) == <<(i \div TwoTo16) % TwoTo16, i % TwoTo16>>

\* The little-endian 32-bit word k (from 0) of a byte array, and the 16-bit
\* word k of it: the (uint32_t *) and (uint16_t *) casts.
Word32(bytes, k) ==
  <<bytes[4 * k + 3] + 256 * bytes[4 * k + 4],
    bytes[4 * k + 1] + 256 * bytes[4 * k + 2]>>

Word16(bytes, k) == bytes[2 * k + 1] + 256 * bytes[2 * k + 2]

\* The bytes of a sequence of 32-bit words, and the store of a 16-bit word.
BytesOf32(w, j) ==
  CASE j = 0 -> Lo(w) % 256
    [] j = 1 -> Lo(w) \div 256
    [] j = 2 -> Hi(w) % 256
    [] OTHER -> Hi(w) \div 256

min_st(x, y) == IF y > x THEN x ELSE y
max_st(x, y) == IF y < x THEN x ELSE y
min_u32(x, y) == IF y > x THEN x ELSE y
max_u32(x, y) == IF y < x THEN x ELSE y

\* <<quotient, remainder>> of a * b / c, computed over the three base-512
\* digits of b so that no intermediate leaves the 32-bit range
\* (0 <= b < 2^27, 511 * a + 512 * c < 2^31).
MulDivStep(qr, a, d, c) ==
  <<512 * qr[1] + (512 * qr[2] + a * d) \div c, (512 * qr[2] + a * d) % c>>

MulDivQR(a, b, c) ==
  MulDivStep(MulDivStep(MulDivStep(<<0, 0>>, a, b \div 262144, c),
                        a, (b \div 512) % 512, c),
             a, b % 512, c)

MulDiv(a, b, c) == IF a = 0 \/ b = 0 THEN 0 ELSE MulDivQR(a, b, c)[1]

\* Fixed-point product and quotient of two scores (y >= 0), rounded toward
\* zero.
FMul(x, y) ==
  IF x >= 0 THEN MulDiv(x, y, SCALE) ELSE -MulDiv(-x, y, SCALE)

FDiv(x, y) ==
  IF x >= 0 THEN MulDiv(x, SCALE, y) ELSE -MulDiv(-x, SCALE, y)

fmin(x, y) == IF x < y THEN x ELSE y
fmax(x, y) == IF x > y THEN x ELSE y

\* ------------------------------------------------------------------------
\* Bitops (fplib.c)
\* ------------------------------------------------------------------------
\* The three statements of pop32, each on the x the one before left.
pop32_pairs(x) ==
  After(x, Sub32(x, And32(Shr32(x, 1), <<21845, 21845>>)))

pop32_nibbles(x) ==
  After(x, Add32(And32(x, <<13107, 13107>>),
                 And32(Shr32(x, 2), <<13107, 13107>>)))

pop32_low_nibbles(x) == After(x, And32(Add32(x, Shr32(x, 4)), <<3855, 3855>>))

pop32_bytes(x) == After(x, Lo(Shr32(Mul32(x, <<257, 257>>), 24)))

pop32(x) == pop32_bytes(pop32_low_nibbles(pop32_nibbles(pop32_pairs(x))))

\* The parameter is uint16_t: each assignment to x truncates to 16 bits, but
\* the returned expression is evaluated in int (integer promotion) and is
\* not truncated.
pop16_pairs(x) == After(x, (x - BitAnd(x \div 2, 21845)) % TwoTo16)

pop16_nibbles(x) ==
  After(x, (BitAnd(x, 13107) + BitAnd(x \div 4, 13107)) % TwoTo16)

pop16_bytes(x) == After(x, (BitAnd(x + x \div 16, 3855) * 257) \div 256)

pop16(x) == pop16_bytes(pop16_nibbles(pop16_pairs(x)))

\* The two-bit lane k (0..15) of a 32-bit word: (x >> (k << 1)) & 0x3.
Lane(x, k) ==
  IF k < 8 THEN (Lo(x) \div Pow2(2 * k)) % 4
  ELSE (Hi(x) \div Pow2(2 * (k - 8))) % 4

\* rdiff is <<rdiff[0], rdiff[1], rdiff[2], rdiff[3]>>: each of the 16
\* lanes of x adds one to the entry its value names (all 16 to rdiff[0]
\* when x is zero).
rdiff_fooid32(x, rdiff) ==
  IF x = Zero32 THEN [rdiff EXCEPT ![1] = @ + 16]
  ELSE [v \in 1..4 |->
          rdiff[v] + Cardinality({k \in 0..15 : Lane(x, k) = v - 1})]

\* (x & -x) == (y & -y) on uint32_t, as 0 or 1.
cmp_low_bit(x, y) ==
  IF And32(x, Neg32(x)) = And32(y, Neg32(y)) THEN 1 ELSE 0

\* ------------------------------------------------------------------------
\* Similarity kernels (fplib.c)
\* ------------------------------------------------------------------------
\* The sum of f[k] for from <= k < to, f a function on that range; the
\* range is halved until it holds one index.
RECURSIVE SumLoop(_, _, _)
SumLoop(f, from, to) ==
  IF to <= from THEN 0
  ELSE IF to = from + 1 THEN f[from]
  ELSE SumLoop(f, from, (from + to) \div 2)
       + SumLoop(f, (from + to) \div 2, to)

\* rdiff[1] + rdiff[2] * 4 + rdiff[3] * 9
RWeight(rdiff) == After(rdiff, rdiff[2] + rdiff[3] * 4 + rdiff[4] * 9)

\* The r loop over the words x[0 .. R_SIZE32-1]: rdiff_fooid32 on each, then
\* the weighted sum (which is additive over the words).
DiffR(x) ==
  SumLoop([i \in 0..(R_SIZE32 - 1) |->
             RWeight(rdiff_fooid32(x[i], <<0, 0, 0, 0>>))],
          0, R_SIZE32)

\* The dom loop over the words x[0 .. DOM_LEN32-1], then the 16-bit tail.
DiffDom(x, tail) ==
  SumLoop([j \in 0..(DOM_LEN32 - 1) |-> pop32(x[j])], 0, DOM_LEN32)
  + pop16(tail)

\* fmax(fmin(x, 1.0), 0.0)
Clamp01(x) == After(x, fmax(fmin(x, SCALE), 0))

\* perc, conf and the clamp shared by the fooid scores.
FooidConf(diff) ==
  After(diff,
        Clamp01(((SCALE - MulDiv(diff, SCALE, MAX_TOTDIFF)) - SCALE \div 2)
                * 2))

match_fooid_fp(r_a, dom_a, r_b, dom_b) ==
  FooidConf(
    DiffR([i \in 0..(R_SIZE32 - 1) |->
             Xor32(Word32(r_a, i), Word32(r_b, i))])
    + DiffDom([j \in 0..(DOM_LEN32 - 1) |->
                 Xor32(Word32(dom_a, j), Word32(dom_b, j))],
              BitXor(Word16(dom_a, DOM_END16), Word16(dom_b, DOM_END16))))

\* match_chromab normalising by the first print's length instead of the
\* longer one.
\* sm of match_chromab: the number of k < maxsize at which the two prints
\* have the same lowest set bit.
SameLowBits(cp1, cp2, maxsize) ==
  Cardinality({k \in 0..(maxsize - 1) :
                 cmp_low_bit(U32(cp1[k + 1]), U32(cp2[k + 1])) = 1})

\* (double)sm / (double)len, 0.0 when sm is 0.
ChromaRatio(sm, len) == IF sm = 0 THEN 0 ELSE MulDiv(sm, SCALE, len)

\* match_chromab normalising by the first print's length instead of the
\* longer one.
match_chromab_by_first(cp1, cp1_len, cp2, cp2_len) ==
  IF min_st(cp1_len, cp2_len) = 0 THEN 0
  ELSE ChromaRatio(SameLowBits(cp1, cp2, min_st(cp1_len, cp2_len)), cp1_len)

match_chromab(cp1, cp1_len, cp2, cp2_len) ==
  IF min_st(cp1_len, cp2_len) = 0 THEN 0
  ELSE ChromaRatio(SameLowBits(cp1, cp2, min_st(cp1_len, cp2_len)),
                   max_st(cp1_len, cp2_len))

\* The combination with the sign of the cubic term slipped.
Combine_cubic_sign(fm, cp) ==
  After(fm, After(cp,
    FDiv((12985 + FMul(fm, 263439) - FMul(cp, 683234)
          - FMul(FMul(FMul(cp, cp), cp), 1592623)) + 63480,
         1248900)))

\* The cubic combination of a fooid score and a chroma score, unclamped:
\* ((0.012985 + .263439 * fm + -.683234 * cp + 1.592623 * cp^3) + 0.06348)
\* / 1.2489.
Combine(fm, cp) ==
  After(fm, After(cp,
    FDiv((12985 + FMul(fm, 263439) - FMul(cp, 683234)
          + FMul(FMul(FMul(cp, cp), cp), 1592623)) + 63480,
         1248900)))

\* songlen_diff > 0.1f * fmin(sl_a, sl_b), exact for songlen < 2^24.
fabsf(x) == IF x < 0 THEN -x ELSE x

SonglenTooFar(sl_a, sl_b) == 10 * fabsf(sl_a - sl_b) > fmin(sl_a, sl_b)

match_cpfm(a, b) ==
  IF SonglenTooFar(a.songlen, b.songlen) THEN 0
  ELSE Combine(match_fooid_fp(a.r, a.dom, b.r, b.dom),
               match_chromab(a.cprint, a.cprint_len, b.cprint, b.cprint_len))

\* ------------------------------------------------------------------------
\* The record in memory and its two views (fplib.h)
\* ------------------------------------------------------------------------
\* NULL, and a variable that holds nothing yet.
None == "none"

\* (FPrintUnion *)fp and (FPrint *)u: the same bytes under the other type.
AsUnion(fp) ==
  [cprint_len |-> fp.cprint_len, min_songlen |-> fp.songlen,
   bit_rate |-> fp.bit_rate, max_songlen |-> fp.num_errors,
   r |-> fp.r, dom |-> fp.dom, cprint |-> fp.cprint]

AsFPrint(u) ==
  [cprint_len |-> u.cprint_len, songlen |-> u.min_songlen,
   bit_rate |-> u.bit_rate, num_errors |-> u.max_songlen,
   r |-> u.r, dom |-> u.dom, cprint |-> u.cprint]

\* The int32_t holding the bits of a uint32_t word.
I32(w) ==
  IF Hi(w) >= 32768 THEN (Hi(w) - TwoTo16) * TwoTo16 + Lo(w)
  ELSE Hi(w) * TwoTo16 + Lo(w)

\* u |= a over a whole byte array, done by the code in 32-bit (and one
\* 16-bit) words.
OrBytes(b_u, b_a) == [i \in 1..Len(b_u) |-> BitOr(b_u[i], b_a[i])]

\* cp_u[l] |= cp_a[l] for l < cp_len; the rest of the buffer is untouched.
OrCprint(cp_u, cp_a, cp_len) ==
  [l \in 1..Len(cp_u) |->
     IF l <= cp_len THEN I32(Or32(U32(cp_u[l]), U32(cp_a[l]))) ELSE cp_u[l]]

\* ------------------------------------------------------------------------
\* Union operations (fplib.c)
\* ------------------------------------------------------------------------
\* calloc(1, CALC_FP_SIZE(cprint_size)): a zeroed record whose buffer holds
\* at least one codeword; cprint_len is 0 when cprint_size < 1.
new_fprint(cprint_size) ==
  [cprint_len |-> IF cprint_size < 1 THEN 0 ELSE cprint_size,
   songlen |-> 0, bit_rate |-> 0, num_errors |-> 0,
   r |-> [i \in 1..R_SIZE |-> 0], dom |-> [i \in 1..DOM_SIZE |-> 0],
   cprint |-> [l \in 1..max_st(cprint_size, 1) |-> 0]]

\* The cprint of u after fprint_merge: the OR of the two prints over their
\* common length, then the longer print's tail OR-ed into what u held.
MergeCprint(cp_u, a, b, cp_len) ==
  [l \in 1..Len(cp_u) |->
     IF l <= cp_len
     THEN I32(Or32(U32(a.cprint[l]), U32(b.cprint[l])))
     ELSE IF a.cprint_len > cp_len /\ l > b.cprint_len /\ l <= a.cprint_len
     THEN I32(Or32(U32(cp_u[l]), U32(a.cprint[l])))
     ELSE IF ~(a.cprint_len > cp_len) /\ b.cprint_len > cp_len
             /\ l > a.cprint_len /\ l <= b.cprint_len
     THEN I32(Or32(U32(cp_u[l]), U32(b.cprint[l])))
     ELSE cp_u[l]]

fprint_merge(u, a, b) ==
  [u EXCEPT !.r = OrBytes(a.r, b.r),
            !.dom = OrBytes(a.dom, b.dom),
            !.cprint = MergeCprint(u.cprint, a, b,
                                   min_st(a.cprint_len, b.cprint_len)),
            !.min_songlen = min_u32(a.songlen, b.songlen),
            !.max_songlen = max_u32(a.songlen, b.songlen)]

\* fprint_merge_one without the 16-bit store that ends the dom loop.
fprint_merge_one_no_tail(u, a) ==
  [u EXCEPT !.r = OrBytes(u.r, a.r),
            !.dom = [i \in 1..DOM_SIZE |->
                       IF i <= 4 * DOM_LEN32 THEN BitOr(u.dom[i], a.dom[i])
                       ELSE u.dom[i]],
            !.cprint = OrCprint(u.cprint, a.cprint, a.cprint_len),
            !.min_songlen = IF u.min_songlen > 0
                            THEN min_u32(u.min_songlen, a.songlen)
                            ELSE a.songlen,
            !.max_songlen = max_u32(u.max_songlen, a.songlen)]

fprint_merge_one(u, a) ==
  [u EXCEPT !.r = OrBytes(u.r, a.r),
            !.dom = OrBytes(u.dom, a.dom),
            !.cprint = OrCprint(u.cprint, a.cprint, a.cprint_len),
            !.min_songlen = IF u.min_songlen > 0
                            THEN min_u32(u.min_songlen, a.songlen)
                            ELSE a.songlen,
            !.max_songlen = max_u32(u.max_songlen, a.songlen)]

fprint_merge_one_union(u, a) ==
  [u EXCEPT !.r = OrBytes(u.r, a.r),
            !.dom = OrBytes(u.dom, a.dom),
            !.cprint = OrCprint(u.cprint, a.cprint, a.cprint_len),
            !.min_songlen = IF u.min_songlen > 0
                            THEN min_u32(u.min_songlen, a.min_songlen)
                            ELSE a.min_songlen,
            !.max_songlen = max_u32(u.max_songlen, a.max_songlen)]

\* x ^ (x & y): the bits of x that y does not cover.
Uncovered32(x, y) == Xor32(x, And32(x, y))
Uncovered16(x, y) == BitXor(x, BitAnd(x, y))

\* (x == (x & y)) || cmp_low_bit(x, y), as 0 or 1.
CoveredOrLowBit(x, y) ==
  IF x = And32(x, y) \/ cmp_low_bit(x, y) = 1 THEN 1 ELSE 0

\* diff_cp += ((x == (x & y)) || cmp_low_bit(x, y)) for x = cp_x[k] and
\* y = ys[k], k in from .. to-1.
CountCovered(cp_x, ys, from, to) ==
  Cardinality({k \in from..(to - 1) :
                 CoveredOrLowBit(U32(cp_x[k + 1]), ys[k]) = 1})

\* The fooid score of "x against cover y" shared by the three union
\* kernels; ry and dy give the covering words, ty the covering tail.
CoverFooid(r_x, dom_x, ry, dy, ty) ==
  FooidConf(
    DiffR([i \in 0..(R_SIZE32 - 1) |-> Uncovered32(Word32(r_x, i), ry[i])])
    + DiffDom([j \in 0..(DOM_LEN32 - 1) |->
                 Uncovered32(Word32(dom_x, j), dy[j])],
              Uncovered16(Word16(dom_x, DOM_END16), ty)))

Words32(bytes, n) == [i \in 0..(n - 1) |-> Word32(bytes, i)]

\* comb, clamped to [0, 1].
ClampedCombine(fooid, chroma) == Clamp01(Combine(fooid, chroma))

\* chroma = diff_cp / x.cprint_len when cp_len > 0, else 0; ys are the
\* covering codewords.
CoverChroma(cp_x, len_x, ys, cp_len) ==
  IF cp_len > 0
  THEN MulDiv(CountCovered(cp_x, ys, 0, cp_len), SCALE, len_x)
  ELSE 0

\* The score of a against u taken as a record: every differing bit counts,
\* not only the bits of a that u lacks.
match_fprint_merge_both_ways(a, u) == match_cpfm(a, AsFPrint(u))

match_fprint_merge(a, u) ==
  ClampedCombine(
    CoverFooid(a.r, a.dom, Words32(u.r, R_SIZE32),
               Words32(u.dom, DOM_LEN32), Word16(u.dom, DOM_END16)),
    CoverChroma(a.cprint, a.cprint_len,
                [k \in 0..(min_st(u.cprint_len, a.cprint_len) - 1) |->
                   U32(u.cprint[k + 1])],
                min_st(u.cprint_len, a.cprint_len)))

\* match_merges past its envelope test: u1 against the cover u2.
MergesScore(u1, u2) ==
  ClampedCombine(
    CoverFooid(u1.r, u1.dom, Words32(u2.r, R_SIZE32),
               Words32(u2.dom, DOM_LEN32), Word16(u2.dom, DOM_END16)),
    CoverChroma(u1.cprint, u1.cprint_len,
                [k \in 0..(min_st(u1.cprint_len, u2.cprint_len) - 1) |->
                   U32(u2.cprint[k + 1])],
                min_st(u1.cprint_len, u2.cprint_len)))

\* match_merges testing the envelopes on one side only.
match_merges_one_sided(u1, u2) ==
  IF u1.max_songlen < u2.min_songlen THEN 0 ELSE MergesScore(u1, u2)

match_merges(u1, u2) ==
  IF u1.max_songlen < u2.min_songlen \/ u2.max_songlen < u1.min_songlen
  THEN 0
  ELSE MergesScore(u1, u2)

\* cp_len before the tails: the shortest of the three prints.
TryCpLen0(u1, u2, a) ==
  min_st(min_st(u1.cprint_len, u2.cprint_len), a.cprint_len)

\* The first loop of try_match_merges over the chroma prints: u1 against
\* u2 | a.
TryBoth(u1, u2, a, cp_len0) ==
  CountCovered(u1.cprint,
               [k \in 0..(cp_len0 - 1) |->
                  Or32(U32(u2.cprint[k + 1]), U32(a.cprint[k + 1]))],
               0, cp_len0)

\* cp_len after the tails.
TryCpLen(u1, u2, a, cp_len0) ==
  IF u1.cprint_len > cp_len0
  THEN IF a.cprint_len > cp_len0 THEN min_st(u1.cprint_len, a.cprint_len)
       ELSE IF u2.cprint_len > cp_len0
       THEN min_st(u1.cprint_len, u2.cprint_len)
       ELSE cp_len0
  ELSE cp_len0

\* The tail loops left out: only the common prefix of the three prints is
\* scored.
TryRest_no_tails(u1, u2, a, cp_len0) == 0

\* The tail loops: u1 against what is left of a, or of u2.
TryRest(u1, u2, a, cp_len0) ==
  IF u1.cprint_len > cp_len0
  THEN IF a.cprint_len > cp_len0
       THEN CountCovered(u1.cprint,
                         [l \in u2.cprint_len..
                                  (min_st(u1.cprint_len, a.cprint_len) - 1) |->
                            U32(a.cprint[l + 1])],
                         u2.cprint_len, min_st(u1.cprint_len, a.cprint_len))
       ELSE IF u2.cprint_len > cp_len0
       THEN CountCovered(u1.cprint,
                         [l \in a.cprint_len..
                                  (min_st(u1.cprint_len, u2.cprint_len) - 1) |->
                            U32(u2.cprint[l + 1])],
                         a.cprint_len, min_st(u1.cprint_len, u2.cprint_len))
       ELSE 0
  ELSE 0

TryChroma(u1, u2, a, cp_len0) ==
  IF TryCpLen(u1, u2, a, cp_len0) > 0
  THEN MulDiv(TryBoth(u1, u2, a, cp_len0) + TryRest(u1, u2, a, cp_len0),
              SCALE, u1.cprint_len)
  ELSE 0

try_match_merges(u1, u2, a) ==
  ClampedCombine(
    CoverFooid(u1.r, u1.dom,
               [i \in 0..(R_SIZE32 - 1) |->
                  Or32(Word32(u2.r, i), Word32(a.r, i))],
               [j \in 0..(DOM_LEN32 - 1) |->
                  Or32(Word32(u2.dom, j), Word32(a.dom, j))],
               BitOr(Word16(u2.dom, DOM_END16), Word16(a.dom, DOM_END16))),
    TryChroma(u1, u2, a, TryCpLen0(u1, u2, a)))


\* ------------------------------------------------------------------------
\* Index support functions (part_002)
\* ------------------------------------------------------------------------
KEY_CP_START_IX1 == 464
KEY_CP_END_IX1 == 704
KEY_CP_START_IX2 == 704
KEY_CP_END_IX2 == 944

\* start with the second window left out.
KeyStart_one_window(cprint_len) ==
  IF cprint_len >= KEY_CP_END_IX1 THEN KEY_CP_START_IX1 ELSE 0

\* start: where the key window of a print of the given length begins.
KeyStart(cprint_len) ==
  IF cprint_len >= KEY_CP_END_IX2 THEN KEY_CP_START_IX2
  ELSE IF cprint_len >= KEY_CP_END_IX1 THEN KEY_CP_START_IX1
  ELSE 0

\* The null pointer, a datum of size zero, and what a function that left
\* through elog(ERROR) hands on instead of a value.
NULL == [null |-> TRUE]
IsNULL(p) == "null" \in DOMAIN p
EmptyDatum == [varsize |-> 0]
ElogError == [elog |-> "ERROR"]
Raised(p) == "elog" \in DOMAIN p

\* deserialize_fprint: a copy of the stored entry with its print cut to the
\* key window; the header, r and dom are copied as they are, whichever of
\* the two types the entry has.  Stored entries have cprint_len >= 1.  A
\* datum of size zero and an entry with cprint_len = 100000 give NULL, a
\* longer one raises the error.
deserialize_fprint(fp) ==
  IF "varsize" \in DOMAIN fp THEN NULL
  ELSE IF fp.cprint_len < 100000
  THEN [fp EXCEPT
          !.cprint_len = min_st(MAX_KEY_CP_LEN, fp.cprint_len),
          !.cprint = SubSeq(fp.cprint, KeyStart(fp.cprint_len) + 1,
                            KeyStart(fp.cprint_len)
                            + min_st(MAX_KEY_CP_LEN, fp.cprint_len))]
  ELSE IF fp.cprint_len > 100000 THEN ElogError
  ELSE NULL

\* fprint_compress that stores the whole record as the key.
fprint_compress_whole_print(entry) ==
  IF ~entry.leafkey THEN entry ELSE [leafkey |-> FALSE, key |-> entry.key]

\* fprint_compress: an entry that comes from the table (leafkey) gets a new
\* key, the record with its print cut to the key window, and is no leafkey
\* any more; every other entry is handed back as it is.
fprint_compress(entry) ==
  IF ~entry.leafkey THEN entry
  ELSE [leafkey |-> FALSE,
        key |-> [entry.key EXCEPT
                   !.cprint_len = min_st(MAX_KEY_CP_LEN, entry.key.cprint_len),
                   !.cprint = SubSeq(entry.key.cprint,
                                     KeyStart(entry.key.cprint_len) + 1,
                                     KeyStart(entry.key.cprint_len)
                                     + min_st(MAX_KEY_CP_LEN,
                                              entry.key.cprint_len))]]

\* check_union_size: realloc of the key when the entry's print is longer.
\* realloc leaves the new tail as the allocator found it: junk[l] is what
\* memory holds at codeword l.
check_union_size(fp_u, fp_n, junk) ==
  IF min_st(fp_n.cprint_len, MAX_KEY_CP_LEN) > fp_u.cprint_len
  THEN [fp_u EXCEPT
          !.cprint_len = min_st(fp_n.cprint_len, MAX_KEY_CP_LEN),
          !.cprint = [l \in 1..min_st(fp_n.cprint_len, MAX_KEY_CP_LEN) |->
                        IF l <= Len(fp_u.cprint) THEN fp_u.cprint[l]
                        ELSE junk[l]]]
  ELSE fp_u

\* One round of the loop of fprint_union on the deserialized entry v.
UnionStep(ret, v, junk) ==
  fprint_merge_one_union(check_union_size(ret, v, junk), v)

\* for (i = 1; i < n_entries; i++) ..., entv[i] being the model's
\* entv[i + 1].
RECURSIVE UnionLoop(_, _, _, _)
UnionLoop(ret, entv, i, junk) ==
  After(ret,
        IF i >= Len(entv) THEN ret
        ELSE UnionLoop(UnionStep(ret, deserialize_fprint(entv[i + 1]), junk),
                       entv, i + 1, junk))

\* fprint_union: the first entry, read as an FPrintUnion, is copied to ret
\* and the others are merged into it.  entv holds the stored entries in
\* their FPrintUnion reading, so a leaf record fp is AsUnion(fp).
fprint_union(entv, junk) ==
  UnionLoop(deserialize_fprint(entv[1]), entv, 1, junk)

\* The arrays qsort(matches, n, sizeof(void *), cmp_matches) may leave for
\* the matches in S.  matches is an array of Match *, so qsort hands
\* cmp_matches the addresses of two of its slots, and cmp_matches reads
\* each address as a Match *: what it compares as songlen_diff and val are
\* the bytes of the pointers in the next slots (past the end of the array
\* for the last ones), never the matches.  The order that results is the
\* order the allocator's addresses and qsort's moves make, which can be any.
RECURSIVE qsort(_)
qsort(S) ==
  IF S = {} THEN {<<>>}
  ELSE UNION {{<<m>> \o t : t \in qsort(S \ {m})} : m \in S}

\* WISH_F(a, b, c) with c a score.
WISH_F(a, b, c) == -(((a - b) * (a - b) * (a - b)) * c)

\* The upper songlen bound of a raw_vec entry, held in its FPrint reading:
\* fp1->songlen of a leaf, fpu1->max_songlen of a node key.  The lower
\* bound is the songlen field of either.
EntryMax(fp, leaf_split) ==
  IF leaf_split THEN fp.songlen ELSE AsUnion(fp).max_songlen

\* One round of the scan for the seeds: entry ix with bounds lo, hi.
ScanStep(sc, lo, hi, ix) ==
  IF sc.min_songlen > lo
  THEN [sc EXCEPT !.seed_left = ix, !.min_songlen = lo, !.allisequal = FALSE]
  ELSE IF sc.max_songlen < hi
  THEN [sc EXCEPT !.seed_right = ix, !.max_songlen = hi,
                  !.allisequal = FALSE]
  ELSE sc

\* The scan over raw_vec[i .. n_entries - 1] (raw_vec[k] being the model's
\* raw_vec[k + 1]).
RECURSIVE ScanLoop(_, _, _, _)
ScanLoop(raw_vec, leaf_split, i, sc) ==
  After(sc,
        IF i >= Len(raw_vec) THEN sc
        ELSE ScanLoop(raw_vec, leaf_split, i + 1,
                      ScanStep(sc, raw_vec[i + 1].songlen,
                               EntryMax(raw_vec[i + 1], leaf_split), i)))

Scan(raw_vec, leaf_split) ==
  ScanLoop(raw_vec, leaf_split, 1,
           [seed_left |-> 0, seed_right |-> 0,
            min_songlen |-> raw_vec[1].songlen,
            max_songlen |-> EntryMax(raw_vec[1], leaf_split),
            allisequal |-> TRUE])

\* A copy of entry fp as a key with both bounds set to songlen.
SeedKeyOf(fp, songlen) ==
  [AsUnion(fp) EXCEPT !.min_songlen = songlen, !.max_songlen = songlen]

\* What fprint_picksplit hands back in the GIST_SPLITVEC.
SplitVec(left, right, fp_ul, fp_ur) ==
  [spl_left |-> left, spl_nleft |-> Len(left),
   spl_right |-> right, spl_nright |-> Len(right),
   spl_ldatum |-> fp_ul, spl_rdatum |-> fp_ur]

\* n_entries < 3: entries ix_l and ix_r become the two sides; the keys are
\* copies of the entries, with both bounds set to songlen for leaves.
SplitPair(raw_vec, leaf_split, ix_l, ix_r) ==
  SplitVec(<<ix_l + 1>>, <<ix_r + 1>>,
           IF leaf_split
           THEN SeedKeyOf(raw_vec[ix_l + 1], raw_vec[ix_l + 1].songlen)
           ELSE AsUnion(raw_vec[ix_l + 1]),
           IF leaf_split
           THEN SeedKeyOf(raw_vec[ix_r + 1], raw_vec[ix_r + 1].songlen)
           ELSE AsUnion(raw_vec[ix_r + 1]))

SplitSmall(raw_vec, leaf_split, sc) ==
  IF sc.allisequal THEN SplitPair(raw_vec, leaf_split, 0, 1)
  ELSE SplitPair(raw_vec, leaf_split, sc.seed_left, sc.seed_right)

\* The pairwise matches of the all-equal path.
PairVal(fp1, fp2, leaf_split) ==
  IF leaf_split THEN match_cpfm(fp1, fp2)
  ELSE match_fprint_merge(fp1, AsUnion(fp2))

PairMatches(raw_vec, leaf_split) ==
  {[ix1 |-> p[1], ix2 |-> p[2], songlen_diff |-> 0,
    val |-> PairVal(raw_vec[p[1] + 1], raw_vec[p[2] + 1], leaf_split)] :
     p \in {q \in (0..(Len(raw_vec) - 1)) \X (0..(Len(raw_vec) - 1)) :
              q[1] < q[2]}}

\* ASSIGN_IX and ASSIGN_IXU without the offset: the key grown to the
\* entry's print, then the entry merged into it.
AssignKey(fp_u, fpx, leaf_split, junk) ==
  IF leaf_split
  THEN fprint_merge_one(check_union_size(fp_u, fpx, junk), fpx)
  ELSE fprint_merge_one_union(check_union_size(fp_u, fpx, junk),
                              AsUnion(fpx))

\* st holds left, right, fp_ul and fp_ur; n_left and n_right are the
\* lengths of left and right.
AssignLeft(st, k, fpx, leaf_split, junk) ==
  [left |-> Append(st.left, k + 1), right |-> st.right,
   fp_ul |-> AssignKey(st.fp_ul, fpx, leaf_split, junk), fp_ur |-> st.fp_ur]

AssignRight(st, k, fpx, leaf_split, junk) ==
  [left |-> st.left, right |-> Append(st.right, k + 1),
   fp_ul |-> st.fp_ul,
   fp_ur |-> AssignKey(st.fp_ur, fpx, leaf_split, junk)]

Assign(st, toLeft, k, fpx, leaf_split, junk) ==
  IF toLeft THEN AssignLeft(st, k, fpx, leaf_split, junk)
  ELSE AssignRight(st, k, fpx, leaf_split, junk)

\* for (k = 1; k < n_entries - 1; k++) of the all-equal split.
RECURSIVE EvenLoop(_, _, _, _, _, _)
EvenLoop(raw_vec, leaf_split, max_clust_sz, k, st, junk) ==
  After(st,
        IF k >= Len(raw_vec) - 1 THEN st
        ELSE EvenLoop(raw_vec, leaf_split, max_clust_sz, k + 1,
                      Assign(st, k < max_clust_sz, k, raw_vec[k + 1],
                             leaf_split, junk),
                      junk))

SplitOf(st) == SplitVec(st.left, st.right, st.fp_ul, st.fp_ur)

\* The split of entries that all look alike: the first and the last entry
\* are the seeds, the first max_clust_sz entries go left.
EvenSplit(raw_vec, leaf_split, sc, junk) ==
  SplitOf(EvenLoop(raw_vec, leaf_split,
                   IF Len(raw_vec) % 2 = 0 THEN Len(raw_vec) \div 2
                   ELSE (Len(raw_vec) \div 2) + 1,
                   1,
                   [left |-> <<1>>, right |-> <<Len(raw_vec)>>,
                    fp_ul |-> SeedKeyOf(raw_vec[1], sc.min_songlen),
                    fp_ur |-> SeedKeyOf(raw_vec[Len(raw_vec)],
                                        sc.max_songlen)],
                   junk))

\* tmatch_left and tmatch_right of entry fpx.
TMatchLeft(fp_ul, fp_ur, fpx) == try_match_merges(fp_ur, fp_ul, fpx)
TMatchRight(fp_ul, fp_ur, fpx) == try_match_merges(fp_ul, fp_ur, fpx)

\* The distances of entry fpx from the two ends of the songlen range, as
\* the code subtracts them (no entry of a valid vector makes them wrap).
DistLeft(fpx, leaf_split, sc) == EntryMax(fpx, leaf_split) - sc.min_songlen
DistRight(fpx, sc) == sc.max_songlen - fpx.songlen

\* The scores of the general path with the two seeds left among the
\* entries the assignment loop places.
Scores_seeds_not_skipped(raw_vec, leaf_split, sc, seeds, fp_ul, fp_ur) ==
  {[ix1 |-> k,
    songlen_diff |-> min_u32(DistLeft(raw_vec[k + 1], leaf_split, sc),
                             DistRight(raw_vec[k + 1], sc)),
    val |-> fmin(TMatchLeft(fp_ul, fp_ur, raw_vec[k + 1]),
                 TMatchRight(fp_ul, fp_ur, raw_vec[k + 1]))] :
     k \in 0..(Len(raw_vec) - 1)}

\* The scores of the general path.  The code scores and sorts every
\* entry and then skips the two seeds in the assignment loop, so the order
\* of the others is all the loop sees: the model scores and orders those.
Scores(raw_vec, leaf_split, sc, seeds, fp_ul, fp_ur) ==
  {[ix1 |-> k,
    songlen_diff |-> min_u32(DistLeft(raw_vec[k + 1], leaf_split, sc),
                             DistRight(raw_vec[k + 1], sc)),
    val |-> fmin(TMatchLeft(fp_ul, fp_ur, raw_vec[k + 1]),
                 TMatchRight(fp_ul, fp_ur, raw_vec[k + 1]))] :
     k \in (0..(Len(raw_vec) - 1)) \ seeds}

\* The choice between the sides without the WISH term.
TieGoesLeft_no_wish(tmatch_left, tmatch_right, n_left, n_right) ==
  IF tmatch_left < tmatch_right THEN TRUE
  ELSE IF tmatch_left > tmatch_right THEN FALSE
  ELSE n_left < n_right

\* The choice between the sides for an entry as near to one end as to the
\* other.
TieGoesLeft(tmatch_left, tmatch_right, n_left, n_right) ==
  IF tmatch_left < tmatch_right + WISH_F(n_left, n_right, SCALE \div 10)
  THEN TRUE
  ELSE IF tmatch_left > tmatch_right THEN FALSE
  ELSE n_left < n_right

GoesLeft(st, fpx, leaf_split, sc) ==
  IF DistLeft(fpx, leaf_split, sc) < DistRight(fpx, sc) THEN TRUE
  ELSE IF DistLeft(fpx, leaf_split, sc) > DistRight(fpx, sc) THEN FALSE
  ELSE TieGoesLeft(TMatchLeft(st.fp_ul, st.fp_ur, fpx),
                   TMatchRight(st.fp_ul, st.fp_ur, fpx),
                   Len(st.left), Len(st.right))

\* for (l = 0; l < n_entries; l++) over the sorted scores.
RECURSIVE AssignLoop(_, _, _, _, _, _, _)
AssignLoop(raw_vec, leaf_split, sc, matches, l, st, junk) ==
  After(st,
        IF l >= Len(matches) THEN st
        ELSE AssignLoop(raw_vec, leaf_split, sc, matches, l + 1,
                        Assign(st,
                               GoesLeft(st, raw_vec[matches[l + 1].ix1 + 1],
                                        leaf_split, sc),
                               matches[l + 1].ix1,
                               raw_vec[matches[l + 1].ix1 + 1],
                               leaf_split, junk),
                        junk))

\* The general path from its seed keys on: score, sort, assign.
SplitSeeded(raw_vec, leaf_split, sc, seed_left, seed_right, fp_ul, fp_ur, junk) ==
  {SplitOf(AssignLoop(raw_vec, leaf_split, sc, matches, 0,
                      [left |-> <<seed_left + 1>>,
                       right |-> <<seed_right + 1>>,
                       fp_ul |-> fp_ul, fp_ur |-> fp_ur],
                      junk)) :
     matches \in qsort(Scores(raw_vec, leaf_split, sc,
                              {seed_left, seed_right}, fp_ul, fp_ur))}

SplitGeneral(raw_vec, leaf_split, sc, seed_left, seed_right, junk) ==
  SplitSeeded(raw_vec, leaf_split, sc, seed_left, seed_right,
              SeedKeyOf(raw_vec[seed_left + 1], sc.min_songlen),
              SeedKeyOf(raw_vec[seed_right + 1], sc.max_songlen), junk)

\* The all-equal path once qsort has been at the pairwise matches: first
\* is matches[0] and lasts are the matches that may be matches[n_matches -
\* 1].  Every order of the array is one of qsort(pairs); this is the part
\* of the order the code goes on to use.
SplitAllEqual(raw_vec, leaf_split, sc, first, lasts, junk) ==
  (IF \E last \in lasts : last.val > 4 * (SCALE \div 10)
   THEN SplitGeneral(raw_vec, leaf_split, sc, first.ix1, first.ix2, junk)
   ELSE {})
  \cup
  (IF \E last \in lasts : ~(last.val > 4 * (SCALE \div 10))
   THEN {EvenSplit(raw_vec, leaf_split, sc, junk)}
   ELSE {})

SplitSorted(raw_vec, leaf_split, sc, pairs, junk) ==
  UNION {SplitAllEqual(raw_vec, leaf_split, sc, first, pairs \ {first},
                       junk) :
           first \in pairs}

SplitFrom(raw_vec, leaf_split, sc, junk) ==
  IF Len(raw_vec) < 3 THEN {SplitSmall(raw_vec, leaf_split, sc)}
  ELSE IF sc.allisequal
  THEN SplitSorted(raw_vec, leaf_split, sc,
                   PairMatches(raw_vec, leaf_split), junk)
  ELSE SplitGeneral(raw_vec, leaf_split, sc, sc.seed_left, sc.seed_right,
                    junk)

SplitRaw(raw_vec, leaf_split, junk) ==
  SplitFrom(raw_vec, leaf_split, Scan(raw_vec, leaf_split), junk)

\* fprint_picksplit on the entries entv[1 .. maxoff], each in its FPrint
\* reading, with at least two of them: every GIST_SPLITVEC it may return.
fprint_picksplit(entv, leaf_split, junk) ==
  SplitRaw([k \in 1..Len(entv) |-> deserialize_fprint(entv[k])],
           leaf_split, junk)

\* ------------------------------------------------------------------------
\* Text codec (fplib.c).  A character is a one-character string; NUL is
\* the terminator.  A C string in memory is a sequence of characters whose
\* first NUL ends it; what follows the NUL is memory the string does not
\* own.  In the codec a uint32_t header field is held as the Int with the
\* same 32 bits, like an int32_t.
\* ------------------------------------------------------------------------
NUL == "NUL"
BASE_SIZE == 24
HexUpper == <<"0", "1", "2", "3", "4", "5", "6", "7", "8", "9",
              "A", "B", "C", "D", "E", "F">>
HexLower == <<"0", "1", "2", "3", "4", "5", "6", "7", "8", "9",
              "a", "b", "c", "d", "e", "f">>
IsDigit(c) == \E i \in 1..10 : HexUpper[i] = c
IsHex(c) == \E i \in 1..16 : HexUpper[i] = c \/ HexLower[i] = c
HexVal(c) == (CHOOSE i \in 1..16 : HexUpper[i] = c \/ HexLower[i] = c) - 1

\* isspace, for the characters the sample strings are written in.
IsSpace(c) == c = " "

\* fp_str[i]: the character at C index i.  Memory the model does not hold
\* reads as NUL.
At(mem, i) == IF i < Len(mem) THEN mem[i + 1] ELSE NUL

\* strlen: the number of characters before the first NUL.
strlen(mem) ==
  CHOOSE i \in 0..(Len(mem) - 1) :
    mem[i + 1] = NUL /\ \A j \in 1..i : mem[j] # NUL

\* "%u" of the 32-bit word w: its decimal digits.
RECURSIVE DecU32(_)
DecU32(w) ==
  LET t == (Hi(w) % 10) * TwoTo16 + Lo(w)
  IN  IF Hi(w) = 0 /\ Lo(w) < 10 THEN <<HexUpper[Lo(w) + 1]>>
      ELSE Append(DecU32(<<Hi(w) \div 10, t \div 10>>),
                  HexUpper[(t % 10) + 1])

\* "%d" of an int32_t.
FormatD(i) ==
  IF i >= 0 THEN DecU32(U32(i)) ELSE <<"-">> \o DecU32(Neg32(U32(i)))

\* "%02X" of a byte.
FormatX(b) == <<HexUpper[(b \div 16) + 1], HexUpper[(b % 16) + 1]>>

\* The concatenation of f[from], ..., f[to], each a sequence.
RECURSIVE ConcatLoop(_, _, _)
ConcatLoop(f, from, to) ==
  IF from > to THEN <<>>
  ELSE IF from = to THEN f[from]
  ELSE ConcatLoop(f, from, (from + to) \div 2)
       \o ConcatLoop(f, ((from + to) \div 2) + 1, to)

Nuls(n) == [i \in 1..n |-> NUL]

\* BASEFMT of the header fields: what snprintf would write into a buffer
\* that is large enough; its length is the value snprintf returns.
BaseText(fp) ==
  <<"(">> \o DecU32(U32(fp.songlen)) \o <<",">>
  \o DecU32(U32(fp.bit_rate)) \o <<",">>
  \o DecU32(U32(fp.num_errors)) \o <<",">>

\* The r block, the dom block and the codewords as the three loops of
\* fprint_to_string write them, each followed by its separator.
BlocksText(fp) ==
  ConcatLoop([i \in 1..R_SIZE |-> FormatX(fp.r[i])], 1, R_SIZE)
  \o <<",">>
  \o ConcatLoop([i \in 1..DOM_SIZE |-> FormatX(fp.dom[i])], 1, DOM_SIZE)
  \o <<",">>
  \o ConcatLoop([j \in 1..fp.cprint_len |-> FormatD(fp.cprint[j]) \o <<" ">>],
                1, fp.cprint_len)

\* The buffer fprint_to_string returns.  snprintf(base, BASE_SIZE, ...)
\* keeps at most BASE_SIZE - 1 characters of the header and returns its
\* full length base_sz; tmpstr is zero-filled, strncpy copies the kept
\* characters, and the r block is written at offset base_sz.  The last
\* separator is overwritten by ")".
WriteString(full, blocks) ==
  After(full,
  SubSeq(full, 1, min_st(Len(full), BASE_SIZE - 1))
  \o Nuls(Len(full) - min_st(Len(full), BASE_SIZE - 1))
  \o SubSeq(blocks, 1, Len(blocks) - 1) \o <<")", NUL>>)

fprint_to_string(fp) == WriteString(BaseText(fp), BlocksText(fp))

\* sscanf skips white space before a conversion: the first index at or
\* after p that holds none.
RECURSIVE SkipSpace(_, _)
SkipSpace(mem, p) ==
  IF IsSpace(At(mem, p)) THEN SkipSpace(mem, p + 1) ELSE p

\* The first index at or after p that holds no decimal digit.
RECURSIVE DigitsEnd(_, _)
DigitsEnd(mem, p) ==
  IF IsDigit(At(mem, p)) THEN DigitsEnd(mem, p + 1) ELSE p

\* The value of the decimal digits at p..e-1, modulo 2^32 (the store of an
\* unsigned long into a uint32_t, of a long into an int32_t).
RECURSIVE DecVal(_, _, _, _)
DecVal(mem, p, e, acc) ==
  After(acc,
  IF p >= e THEN acc
  ELSE DecVal(mem, p + 1, e,
              Add32(Mul32(acc, <<0, 10>>), <<0, HexVal(At(mem, p))>>)))

\* "%u": white space, an optional sign, decimal digits.  ok is FALSE for a
\* matching failure; p is where the next directive starts.
ScanUEnd(mem, neg, d, e) ==
  [ok |-> e > d,
   val |-> IF neg THEN Neg32(DecVal(mem, d, e, Zero32))
           ELSE DecVal(mem, d, e, Zero32),
   p |-> e]

ScanUDigits(mem, neg, d) == ScanUEnd(mem, neg, d, DigitsEnd(mem, d))

ScanUAt(mem, s) ==
  ScanUDigits(mem, At(mem, s) = "-",
              IF At(mem, s) = "-" \/ At(mem, s) = "+" THEN s + 1 ELSE s)

ScanU(mem, p) == ScanUAt(mem, SkipSpace(mem, p))

\* sscanf(fp_str, BASEFMT, &songlen, &bit_rate, &num_errors): the values
\* it converted, in order; nret is their number.  The "," that ends
\* BASEFMT comes after the last conversion and changes neither.
ScanBase3(mem, u) == IF u.ok THEN <<u.val>> ELSE <<>>

ScanBase2(mem, u) ==
  IF ~u.ok THEN <<>>
  ELSE IF At(mem, u.p) # "," THEN <<u.val>>
  ELSE <<u.val>> \o ScanBase3(mem, ScanU(mem, u.p + 1))

ScanBase1(mem, u) ==
  IF ~u.ok THEN <<>>
  ELSE IF At(mem, u.p) # "," THEN <<u.val>>
  ELSE <<u.val>> \o ScanBase2(mem, ScanU(mem, u.p + 1))

ScanBase(mem) ==
  IF At(mem, 0) # "(" THEN <<>> ELSE ScanBase1(mem, ScanU(mem, 1))

\* One turn of the search for commas: the index after the first "," at or
\* after ix, or -1 when the memory the model holds has none.
NextComma(mem, ix) ==
  IF ix >= 0 /\ \E j \in ix..(Len(mem) - 1) : mem[j + 1] = ","
  THEN (CHOOSE j \in ix..(Len(mem) - 1) :
          mem[j + 1] = "," /\ \A l \in ix..(j - 1) : mem[l + 1] # ",") + 1
  ELSE -1

\* fp_str_ix after while (n_commas < 3): the loop does not look for the
\* terminator.
ThirdComma(mem) == NextComma(mem, NextComma(mem, NextComma(mem, 0)))

\* "%2hhX": white space, then at most two characters of an optional sign
\* and hex digits; the value is stored in a uint8_t.  (A "0x" prefix, which
\* libraries treat differently in a field of width 2, is not among the
\* characters of the sample strings.)
ScanXAt(mem, s) ==
  IF At(mem, s) = "-" \/ At(mem, s) = "+"
  THEN IF IsHex(At(mem, s + 1))
       THEN [ok |-> TRUE,
             val |-> IF At(mem, s) = "-"
                     THEN (256 - HexVal(At(mem, s + 1))) % 256
                     ELSE HexVal(At(mem, s + 1)),
             p |-> s + 2]
       ELSE [ok |-> FALSE, val |-> 0, p |-> s + 1]
  ELSE IF ~IsHex(At(mem, s)) THEN [ok |-> FALSE, val |-> 0, p |-> s]
  ELSE IF IsHex(At(mem, s + 1))
  THEN [ok |-> TRUE,
        val |-> 16 * HexVal(At(mem, s)) + HexVal(At(mem, s + 1)),
        p |-> s + 2]
  ELSE [ok |-> TRUE, val |-> HexVal(At(mem, s)), p |-> s + 1]

ScanX(mem, p) == ScanXAt(mem, SkipSpace(mem, p))

\* sscanf(&fp_str[p], "%2hhX...%2hhX", ...) with count conversions: the
\* bytes it converted, in order; nret is their number.
RECURSIVE ScanXs(_, _, _), ScanXsNext(_, _, _)
ScanXs(mem, p, count) ==
  IF count = 0 THEN <<>> ELSE ScanXsNext(mem, ScanX(mem, p), count)

ScanXsNext(mem, x, count) ==
  IF x.ok THEN <<x.val>> \o ScanXs(mem, x.p, count - 1) ELSE <<>>

\* One turn of a block loop: the sscanf at fp_str_ix = at.  beyond is TRUE
\* when at is past the terminator, which is at index n.
ScanGroup(n, at, bytes, per) ==
  [ok |-> Len(bytes) = per, bytes |-> bytes, beyond |-> at > n]

JoinBlocks(left, right) ==
  [ok |-> right.ok, bytes |-> left.bytes \o right.bytes,
   beyond |-> left.beyond \/ right.beyond]

\* Turns from..to of a block loop that starts at ix and reads per bytes a
\* turn; every turn adds 2 * per to fp_str_ix whatever sscanf consumed.
\* The loop stops at the first turn whose nret is not per.
RECURSIVE ScanBlock(_, _, _, _, _, _), ScanBlockRest(_, _, _, _, _, _, _)
ScanBlock(mem, n, ix, per, from, to) ==
  IF from = to
  THEN ScanGroup(n, ix + 2 * per * from,
                 ScanXs(mem, ix + 2 * per * from, per), per)
  ELSE ScanBlockRest(mem, n, ix, per, (from + to) \div 2, to,
                     ScanBlock(mem, n, ix, per, from, (from + to) \div 2))

ScanBlockRest(mem, n, ix, per, mid, to, left) ==
  After(left,
  IF left.ok THEN JoinBlocks(left, ScanBlock(mem, n, ix, per, mid + 1, to))
  ELSE left)

\* (int32_t)strtol(cpn_str, NULL, 10) of what the loop lets into cpn_str:
\* an optional leading '-', then digits.  No digits convert to 0.
strtol(cpn) ==
  IF Len(cpn) > 0 /\ cpn[1] = "-"
  THEN I32(Neg32(DecVal(cpn, 1, Len(cpn), Zero32)))
  ELSE I32(DecVal(cpn, 0, Len(cpn), Zero32))

\* The loop over the cprint list with c = fp_str[ix], cp_char_ix =
\* Len(cpn) and cprint_ix = Len(cprint).  The buffer grows by 474 entries
\* when it is full, which keeps what it holds.
RECURSIVE CprintLoop(_, _, _, _)
CprintLoop(mem, ix, cpn, cprint) ==
  After(cprint,
  IF At(mem, ix) = NUL THEN [ok |-> TRUE, cprint |-> cprint]
  ELSE IF Len(cpn) >= 12 THEN [ok |-> FALSE, cprint |-> cprint]
  ELSE IF At(mem, ix) = ")"
  THEN [ok |-> TRUE, cprint |-> Append(cprint, strtol(cpn))]
  ELSE IF At(mem, ix) = " "
  THEN CprintLoop(mem, ix + 1, <<>>, Append(cprint, strtol(cpn)))
  ELSE IF IsDigit(At(mem, ix)) \/ (Len(cpn) = 0 /\ At(mem, ix) = "-")
  THEN CprintLoop(mem, ix + 1, Append(cpn, At(mem, ix)), cprint)
  ELSE [ok |-> FALSE, cprint |-> cprint])

\* What fprint_from_string hands back: NULL, or the record fp; beyond is
\* TRUE when it read memory past the string's terminator.
ReturnNull(beyond) == [null |-> TRUE, fp |-> None, beyond |-> beyond]
ReturnRecord(fp, beyond) == [null |-> FALSE, fp |-> fp, beyond |-> beyond]

FromCprint(base, r, dom, beyond, cl) ==
  IF ~cl.ok THEN ReturnNull(beyond)
  ELSE ReturnRecord([new_fprint(Len(cl.cprint)) EXCEPT
                      !.cprint_len = Len(cl.cprint),
                      !.songlen = I32(base[1]),
                      !.bit_rate = I32(base[2]),
                      !.num_errors = I32(base[3]),
                      !.r = r, !.dom = dom,
                      !.cprint = IF Len(cl.cprint) = 0 THEN @
                                 ELSE cl.cprint],
                   beyond)

\* After the dom loop: the "," after the dom block at ix, then the list.
FromDom(mem, n, base, r, ix, beyond, db) ==
  IF ~db.ok THEN ReturnNull(beyond \/ db.beyond)
  ELSE IF At(mem, ix) # "," THEN ReturnNull(beyond \/ ix > n)
  ELSE FromCprint(base, r, db.bytes, beyond \/ ix + 1 > n,
                  CprintLoop(mem, ix + 1, <<>>, <<>>))

\* After the r loop: the "," after the r block at ix, then the dom loop.
FromR(mem, n, base, ix, beyond, rb) ==
  IF ~rb.ok THEN ReturnNull(beyond \/ rb.beyond)
  ELSE IF At(mem, ix) # "," THEN ReturnNull(beyond \/ ix > n)
  ELSE FromDom(mem, n, base, rb.bytes, ix + 1 + 2 * DOM_SIZE,
               beyond \/ ix > n,
               ScanBlock(mem, n, ix + 1, 2, 0, (DOM_SIZE \div 2) - 1))

\* After the search for commas, which left fp_str_ix = ix.
FromCommas(mem, n, base, ix) ==
  IF ix = -1 THEN ReturnNull(TRUE)
  ELSE FromR(mem, n, base, ix + 2 * R_SIZE, ix - 1 > n,
             ScanBlock(mem, n, ix, 4, 0, (R_SIZE \div 4) - 1))

FromBase(mem, n, base) ==
  IF Len(base) # 3 THEN ReturnNull(FALSE)
  ELSE FromCommas(mem, n, base, ThirdComma(mem))

FromLength(mem, n) ==
  IF n < 11 + 2 * R_SIZE + 2 * DOM_SIZE THEN ReturnNull(FALSE)
  ELSE FromBase(mem, n, ScanBase(mem))

fprint_from_string(mem) == FromLength(mem, strlen(mem))

\* ------------------------------------------------------------------------
\* Sample inputs
\* ------------------------------------------------------------------------
\* The longest chroma print of a sample record.
MaxCpLen == 2

\* Two codewords whose lowest set bits differ (8 and 4).
CodeWords == {-8, 12}
Cprints == UNION {[1..n -> CodeWords] : n \in 1..MaxCpLen}

\* A byte array of length n: all zero for seed 0, a descending ramp for 255.
Pat(seed, n) == [i \in 1..n |-> (seed * i) % 256]

\* A record as get_fingerprint fills it: new_fprint, then the fields.
NewRecord(songlen, seed, cp) ==
  [new_fprint(Len(cp)) EXCEPT !.songlen = songlen, !.bit_rate = 128,
                              !.r = Pat(seed, R_SIZE),
                              !.dom = Pat(seed, DOM_SIZE), !.cprint = cp]

\* <<songlen, seed>>: two songs of nearly the same length, one far away and
\* one of length zero.
Payloads == {<<0, 255>>, <<100, 0>>, <<105, 255>>, <<200, 0>>}
Records == {NewRecord(p[1], p[2], c) : p \in Payloads, c \in Cprints}

\* ------------------------------------------------------------------------
\* State
\* ------------------------------------------------------------------------
VARIABLES
  fa, fb,   \* the two stored records a query compares
  qpc,      \* the session's position: "start", "ab", "done"
  qres,     \* what the scalar operators returned: "ab" for (a, b), "ba" for
            \* (b, a); a query not yet made has no entry
  mu,       \* the union key a client builds
  mpre,     \* the key as it was before the last operation on it
  marg,     \* the record the last fprint_merge_one merged
  mop,      \* the last operation on the key: "new", "merge", "seed",
            \* "merge_one"
  ku1, ku2, \* the two union keys match_unions compares
  kpc,      \* the comparison's position: "start", "fwd", "done"
  kres,     \* what match_merges returned: "fwd" for (u1, u2), "rev" for
            \* (u2, u1)
  uvec,     \* the entry vector handed to fprint_union, each entry in its
            \* FPrintUnion reading
  uleaf,    \* TRUE when the entries are leaf records, FALSE for node keys
  ukey,     \* the key fprint_union returned
  upc,      \* "call" before fprint_union, "done" after
  sentv,    \* the entries of the page fprint_picksplit splits, each in
            \* its FPrint reading
  sleaf,    \* GIST_LEAF of the entries
  spl,      \* the GIST_SPLITVEC fprint_picksplit returned
  spc,      \* "call" before fprint_picksplit, "done" after
  cfp,      \* the record handed to fprint_to_string
  cstr,     \* the memory that holds the string: its characters, the
            \* terminator and what lies behind it
  ckind,    \* where the string comes from: "formatted" for the output of
            \* fprint_to_string, else what was done to a well-formed text
  cres,     \* what fprint_from_string returned
  cpc,      \* "record" before fprint_to_string, "string" before
            \* fprint_from_string, "parsed" after
  hop,      \* the support function the host calls: "compress", "same",
            \* "consistent" or "penalty"
  harg,     \* the arguments of the call
  hret,     \* what the call returned or wrote to its out-parameters
  hpc       \* "call" before the call, "done" after

matchVars == <<fa, fb, qpc, qres>>
mergeVars == <<mu, mpre, marg, mop>>
keyVars == <<ku1, ku2, kpc, kres>>
unionVars == <<uvec, uleaf, ukey, upc>>
splitVars == <<sentv, sleaf, spl, spc>>
codecVars == <<cfp, cstr, ckind, cres, cpc>>
hostVars == <<hop, harg, hret, hpc>>
vars ==
  <<matchVars, mergeVars, keyVars, unionVars, splitVars, codecVars, hostVars>>

IdleMatch ==
  /\ fa = None
  /\ fb = None
  /\ qpc = "idle"
  /\ qres = <<>>

IdleMerge ==
  /\ mu = None
  /\ mpre = None
  /\ marg = None
  /\ mop = "idle"

IdleKeys ==
  /\ ku1 = None
  /\ ku2 = None
  /\ kpc = "idle"
  /\ kres = <<>>

IdleUnion ==
  /\ uvec = <<>>
  /\ uleaf = FALSE
  /\ ukey = None
  /\ upc = "idle"

IdleSplit ==
  /\ sentv = <<>>
  /\ sleaf = FALSE
  /\ spl = None
  /\ spc = "idle"

\* What each specification leaves alone.
IdleCodec ==
  /\ cfp = None
  /\ cstr = <<>>
  /\ ckind = "none"
  /\ cres = None
  /\ cpc = "idle"

IdleHost ==
  /\ hop = "none"
  /\ harg = None
  /\ hret = None
  /\ hpc = "idle"

matchRest == <<mergeVars, keyVars, unionVars, splitVars, codecVars, hostVars>>
mergeRest == <<matchVars, keyVars, unionVars, splitVars, codecVars, hostVars>>
keyRest == <<matchVars, mergeVars, unionVars, splitVars, codecVars, hostVars>>
unionRest == <<matchVars, mergeVars, keyVars, splitVars, codecVars, hostVars>>
splitRest == <<matchVars, mergeVars, keyVars, unionVars, codecVars, hostVars>>
codecRest == <<matchVars, mergeVars, keyVars, unionVars, splitVars, hostVars>>
hostRest == <<matchVars, mergeVars, keyVars, unionVars, splitVars, codecVars>>
MatchRestIdle ==
  IdleMerge /\ IdleKeys /\ IdleUnion /\ IdleSplit /\ IdleCodec /\ IdleHost
MergeRestIdle ==
  IdleMatch /\ IdleKeys /\ IdleUnion /\ IdleSplit /\ IdleCodec /\ IdleHost
KeyRestIdle ==
  IdleMatch /\ IdleMerge /\ IdleUnion /\ IdleSplit /\ IdleCodec /\ IdleHost
UnionRestIdle ==
  IdleMatch /\ IdleMerge /\ IdleKeys /\ IdleSplit /\ IdleCodec /\ IdleHost
SplitRestIdle ==
  IdleMatch /\ IdleMerge /\ IdleKeys /\ IdleUnion /\ IdleCodec /\ IdleHost
CodecRestIdle ==
  IdleMatch /\ IdleMerge /\ IdleKeys /\ IdleUnion /\ IdleSplit /\ IdleHost
HostRestIdle ==
  IdleMatch /\ IdleMerge /\ IdleKeys /\ IdleUnion /\ IdleSplit /\ IdleCodec

\* ------------------------------------------------------------------------
\* Scalar operators (part_002): fprint_cmp, fprint_eq, fprint_neq and
\* fprint_match each call match_cpfm on their two arguments.
\* ------------------------------------------------------------------------
ScalarAnswers(val) ==
  [cmp |-> val, eq |-> FP_ISEQ(val), neq |-> FP_ISNEQ(val),
   match |-> FP_ISMATCH(val)]

ScalarOps(fp1, fp2) == ScalarAnswers(match_cpfm(fp1, fp2))

InitMatch ==
  /\ fa \in Records
  /\ fb \in Records
  /\ qpc = "start"
  /\ qres = <<>>
  /\ MatchRestIdle

\* SELECT a <op> b
QueryAB ==
  /\ qpc = "start"
  /\ qres' = ("ab" :> ScalarOps(fa, fb))
  /\ qpc' = "ab"
  /\ UNCHANGED <<fa, fb, matchRest>>

\* SELECT b <op> a
QueryBA ==
  /\ qpc = "ab"
  /\ qres' = qres @@ ("ba" :> ScalarOps(fb, fa))
  /\ qpc' = "done"
  /\ UNCHANGED <<fa, fb, matchRest>>

NextMatch == QueryAB \/ QueryBA
SpecMatch == InitMatch /\ [][NextMatch]_vars

\* ------------------------------------------------------------------------
\* Claims on the scalar similarity (SpecMatch)
\* ------------------------------------------------------------------------
Answered == DOMAIN qres

\* C4: match_cpfm(a, b) lies in [0, 1] for every pair of records a, b,
\* because the cubic combination is clamped before it is returned.
C4_cpfm_in_unit_interval ==
  \A k \in Answered : 0 <= qres[k].cmp /\ qres[k].cmp <= SCALE

\* C5: match_cpfm(a, b) = match_cpfm(b, a) for every pair of records, so
\* fprint_cmp, fprint_eq, fprint_neq and fprint_match answer the same with
\* their arguments swapped.
C5_cpfm_symmetric == qpc = "done" => qres.ab = qres.ba

\* Both orders were asked of two records with prints of different lengths
\* that share a lowest set bit, so the score is not trivially zero.
C5_witness ==
  /\ qpc = "done"
  /\ fa.cprint_len # fb.cprint_len
  /\ fa.r # fb.r
  /\ qres.ab.cmp > 0

\* C7: for every valid record a (cprint_len >= 1), match_cpfm(a, a) >= 0.98
\* and fprint_eq(a, a) is true.
C7_self_match ==
  \A k \in Answered :
    (fa = fb /\ fa.cprint_len >= 1) =>
      (qres[k].cmp >= FP_EXACT_CUTOFF /\ qres[k].eq)

\* A record was compared with itself.
C7_witness == qpc = "done" /\ fa = fb /\ fa.cprint_len >= 1 /\ qres.ab.eq

\* ------------------------------------------------------------------------
\* A client building a union key (musicfp.pyx union, the seed keys and
\* ASSIGN_IX of fprint_picksplit)
\* ------------------------------------------------------------------------
\* The key is a fresh new_fprint, as union() allocates it.
InitMerge ==
  /\ mu \in {AsUnion(new_fprint(n)) : n \in 1..MaxCpLen}
  /\ mpre = None
  /\ marg = None
  /\ mop = "new"
  /\ MergeRestIdle

\* union(a, b): fprint_merge into the fresh key, sized for the longer print.
Merge(a, b) ==
  /\ mop = "new"
  /\ mu.cprint_len = max_st(a.cprint_len, b.cprint_len)
  /\ mu' = fprint_merge(mu, a, b)
  /\ mpre' = mu
  /\ mop' = "merge"
  /\ UNCHANGED <<marg, mergeRest>>

\* The seed key of a split: a copy of the seed record with both bounds set
\* to its songlen.
SeedKey(a) ==
  /\ mop = "new"
  /\ mu.cprint_len = a.cprint_len
  /\ mu' = SeedKeyOf(a, a.songlen)
  /\ mpre' = mu
  /\ mop' = "seed"
  /\ UNCHANGED <<marg, mergeRest>>

\* fprint_merge_one(u, a) on a key whose buffer holds a's print.
MergeOne(a) ==
  /\ mop \in {"new", "merge", "seed"}
  /\ Len(mu.cprint) >= a.cprint_len
  /\ mu' = fprint_merge_one(mu, a)
  /\ mpre' = mu
  /\ marg' = a
  /\ mop' = "merge_one"
  /\ UNCHANGED mergeRest

NextMerge ==
  \/ \E a, b \in Records : Merge(a, b)
  \/ \E a \in Records : SeedKey(a)
  \/ \E a \in Records : MergeOne(a)

SpecMerge == InitMerge /\ [][NextMerge]_vars

\* ------------------------------------------------------------------------
\* Claims on fprint_merge_one (SpecMerge)
\* ------------------------------------------------------------------------
\* Key u covers record a: a's r, dom and cprint bits are bits of u, and a's
\* songlen lies in u's envelope.
Covers(u, a) ==
  /\ \A i \in 1..R_SIZE : BitAnd(a.r[i], u.r[i]) = a.r[i]
  /\ \A i \in 1..DOM_SIZE : BitAnd(a.dom[i], u.dom[i]) = a.dom[i]
  /\ \A k \in 1..a.cprint_len :
       And32(U32(u.cprint[k]), U32(a.cprint[k])) = U32(a.cprint[k])
  /\ u.min_songlen <= a.songlen
  /\ a.songlen <= u.max_songlen

\* C8: after fprint_merge_one(u, a), for every key u whose buffer has at
\* least a.cprint_len entries and every record a, u covers a: a.r & u.r =
\* a.r, a.dom & u.dom = a.dom, u.cprint[k] & a.cprint[k] = a.cprint[k] for
\* k < a.cprint_len, and u.min_songlen <= a.songlen <= u.max_songlen.
C8_merge_one_covers == mop = "merge_one" => Covers(mu, marg)

\* A record was merged into a key that did not cover it, widening the
\* envelope of a key that already held two records.
C8_witness ==
  /\ mop = "merge_one"
  /\ ~Covers(mpre, marg)
  /\ mpre.min_songlen > 0
  /\ marg.dom # mpre.dom
  /\ mu.min_songlen < mpre.min_songlen

\* C9: if key u already covers record a, fprint_merge_one(u, a) leaves
\* every field of u unchanged, min_songlen and max_songlen included, for
\* every value of u.min_songlen including 0.
C9_merge_idempotent ==
  (mop = "merge_one" /\ Covers(mpre, marg)) => mu = mpre

\* ------------------------------------------------------------------------
\* Comparing two union keys (musicfp.pyx union and match_unions)
\* ------------------------------------------------------------------------
\* union(a, b): a fresh key sized for the longer print, then fprint_merge.
union(a, b) ==
  fprint_merge(AsUnion(new_fprint(max_st(a.cprint_len, b.cprint_len))), a, b)

\* The records the sample keys are built from: the one-codeword print and
\* the longest print.
KeyParents ==
  {a \in Records : a.cprint \in {<<12>>, [k \in 1..MaxCpLen |-> -8]}}

SampleKeys == {union(a, b) : a, b \in KeyParents}

InitKeys ==
  /\ ku1 \in SampleKeys
  /\ ku2 \in SampleKeys
  /\ kpc = "start"
  /\ kres = <<>>
  /\ KeyRestIdle

\* match_unions(u1, u2)
MatchUnionsFwd ==
  /\ kpc = "start"
  /\ kres' = ("fwd" :> match_merges(ku1, ku2))
  /\ kpc' = "fwd"
  /\ UNCHANGED <<ku1, ku2, keyRest>>

\* match_unions(u2, u1)
MatchUnionsRev ==
  /\ kpc = "fwd"
  /\ kres' = kres @@ ("rev" :> match_merges(ku2, ku1))
  /\ kpc' = "done"
  /\ UNCHANGED <<ku1, ku2, keyRest>>

NextKeys == MatchUnionsFwd \/ MatchUnionsRev
SpecKeys == InitKeys /\ [][NextKeys]_vars

\* ------------------------------------------------------------------------
\* Claims on match_merges (SpecKeys)
\* ------------------------------------------------------------------------
EnvelopesDisjoint(u1, u2) ==
  u1.max_songlen < u2.min_songlen \/ u2.max_songlen < u1.min_songlen

SameContent(u1, u2) ==
  /\ u1.cprint_len = u2.cprint_len
  /\ u1.r = u2.r
  /\ u1.dom = u2.dom
  /\ u1.cprint = u2.cprint

\* C6 as stated: match_merges(u1, u2) = match_merges(u2, u1) for every
\* pair of union keys u1, u2.
C6_merges_symmetric == kpc = "done" => kres.fwd = kres.rev

\* C6, amended: match_merges(u1, u2) = match_merges(u2, u1) for every pair
\* of union keys whose songlen envelopes are disjoint (both are 0) or that
\* carry the same r, dom, cprint_len and cprint; otherwise match_merges(u1,
\* u2) scores the bits of u1 that u2 covers and the two orders may differ.
C6_merges_symmetric_on_equal_content ==
  /\ (kpc = "done" /\ EnvelopesDisjoint(ku1, ku2)) =>
       (kres.fwd = 0 /\ kres.rev = 0)
  /\ (kpc = "done" /\ SameContent(ku1, ku2)) => kres.fwd = kres.rev

\* Both orders were asked of two different keys with the same content and
\* overlapping envelopes, and the score is not zero.
C6_witness ==
  /\ kpc = "done"
  /\ ku1 # ku2
  /\ SameContent(ku1, ku2)
  /\ ~EnvelopesDisjoint(ku1, ku2)
  /\ kres.fwd > 0

\* ------------------------------------------------------------------------
\* The index union operator (part_002 fprint_union)
\* ------------------------------------------------------------------------
\* The longest entry vector.
MaxEntries == 2

\* What the allocator may have left in a codeword of reallocated memory.
Garbage == {0, -1}

\* Leaf records as fprint_compress stores them: songs of 100 and 105 s,
\* decoded without errors or with 3 or 300 of them.
UnionLeaves ==
  {[a EXCEPT !.num_errors = e] :
     a \in {b \in KeyParents : b.songlen \in {100, 105}},
     e \in {0, 3, 300}}

\* Node keys over the records with r = dom = 0: envelopes [100, 100],
\* [100, 200] and [200, 200].
UnionNodeKeys == {u \in SampleKeys : u.dom[1] = 0}

EntryVectors(S) == UNION {[1..n -> S] : n \in 1..MaxEntries}

InitUnion ==
  /\ uleaf \in BOOLEAN
  /\ uvec \in IF uleaf THEN EntryVectors({AsUnion(a) : a \in UnionLeaves})
              ELSE EntryVectors(UnionNodeKeys)
  /\ ukey = None
  /\ upc = "call"
  /\ UnionRestIdle

\* GiST calls fprint_union on the vector.
CallUnion(junk) ==
  /\ upc = "call"
  /\ ukey' = fprint_union(uvec, junk)
  /\ upc' = "done"
  /\ UNCHANGED <<uvec, uleaf, unionRest>>

NextUnion == \E junk \in [2..MaxCpLen -> Garbage] : CallUnion(junk)
SpecUnion == InitUnion /\ [][NextUnion]_vars

\* ------------------------------------------------------------------------
\* Claims on fprint_union (SpecUnion)
\* ------------------------------------------------------------------------
\* C10: every key fprint_union returns over a vector of child entries, leaf
\* records or node keys, has min_songlen <= max_songlen; its envelope
\* contains the songlen of every child leaf record and the envelope of
\* every child node key; for a single leaf child both bounds equal that
\* record's songlen.
C10_union_envelope ==
  upc = "done" =>
    /\ ukey.min_songlen <= ukey.max_songlen
    /\ \A i \in 1..Len(uvec) :
         IF uleaf
         THEN /\ ukey.min_songlen <= AsFPrint(uvec[i]).songlen
              /\ AsFPrint(uvec[i]).songlen <= ukey.max_songlen
         ELSE /\ ukey.min_songlen <= uvec[i].min_songlen
              /\ uvec[i].max_songlen <= ukey.max_songlen
    /\ (uleaf /\ Len(uvec) = 1) =>
         /\ ukey.min_songlen = AsFPrint(uvec[1]).songlen
         /\ ukey.max_songlen = AsFPrint(uvec[1]).songlen

\* ------------------------------------------------------------------------
\* Splitting a page (part_002 fprint_picksplit)
\* ------------------------------------------------------------------------
\* The most entries on the page that is split.
MaxPage == 4

\* Leaf entries: three songs of 100 s that do not match each other and one
\* of 200 s.
SplitLeaves ==
  <<NewRecord(100, 0, <<12>>), NewRecord(200, 255, <<12>>),
    NewRecord(100, 255, <<-8, 12>>), NewRecord(100, 0, <<-8, -8>>)>>

\* Node keys, in their FPrint reading: the keys over SplitLeaves with
\* envelopes [100, 100], [100, 200] and [200, 200].
SplitNodeKeys ==
  <<AsFPrint(union(SplitLeaves[1], SplitLeaves[3])),
    AsFPrint(union(SplitLeaves[2], SplitLeaves[2])),
    AsFPrint(union(SplitLeaves[1], SplitLeaves[2])),
    AsFPrint(union(SplitLeaves[4], SplitLeaves[4]))>>

\* Pages of 2 .. MaxPage entries taken from the sequence es, in the order
\* they have in es.
Pages(es) ==
  {[k \in 1..Len(f) |-> es[f[k]]] :
     f \in UNION {{g \in [1..n -> 1..Len(es)] :
                     \A k \in 1..(n - 1) : g[k] <= g[k + 1]} :
                  n \in 2..MaxPage}}

InitSplit ==
  /\ sleaf \in BOOLEAN
  /\ sentv \in IF sleaf THEN Pages(SplitLeaves) ELSE Pages(SplitNodeKeys)
  /\ spl = None
  /\ spc = "call"
  /\ SplitRestIdle

\* GiST calls fprint_picksplit on the page.
CallPickSplit(junk) ==
  /\ spc = "call"
  /\ spl' \in fprint_picksplit(sentv, sleaf, junk)
  /\ spc' = "done"
  /\ UNCHANGED <<sentv, sleaf, splitRest>>

NextSplit == \E junk \in [2..MaxCpLen -> Garbage] : CallPickSplit(junk)
SpecSplit == InitSplit /\ [][NextSplit]_vars

\* ------------------------------------------------------------------------
\* Claims on fprint_picksplit (SpecSplit)
\* ------------------------------------------------------------------------
\* C1: for every call of fprint_picksplit on a vector of n valid entries,
\* leaf records or node keys, the split has spl_nleft >= 1 and spl_nright
\* >= 1 whenever n >= 2, and spl_nleft >= 2 and spl_nright >= 2 whenever
\* n >= 4, whatever the songlen values and match scores of the entries.
C1_picksplit_balance ==
  spc = "done" =>
    /\ Len(sentv) >= 2 => (spl.spl_nleft >= 1 /\ spl.spl_nright >= 1)
    /\ Len(sentv) >= 4 => (spl.spl_nleft >= 2 /\ spl.spl_nright >= 2)

\* ------------------------------------------------------------------------
\* The text form (fplib.c): a client formats a record and parses the text
\* back, or parses a text it was given.
\* ------------------------------------------------------------------------
\* Header fields <<songlen, bit_rate, num_errors>>: BASEFMT of them is 7 to
\* 34 characters long, 23 and 24 among the lengths.
CodecHeaders ==
  {<<s, b, e>> : s \in {0, 100, 10000000, 100000000, -1},
                 b \in {128, 2147483647, -1}, e \in {0, 2147483647}}

CodecCprints == {<<12>>, <<-8, 12>>, <<-2147483647, 2147483647>>, <<0>>}

CodecRecord(h, seed, cp) ==
  [NewRecord(h[1], seed, cp) EXCEPT !.bit_rate = h[2], !.num_errors = h[3]]

CodecRecords ==
  {CodecRecord(h, seed, cp) :
     h \in CodecHeaders, seed \in {0, 255}, cp \in CodecCprints}

\* A well-formed text, "(100,128,0," then the blocks then "-8 12)", and
\* the C indices of its parts.
SampleRecord == CodecRecord(<<100, 128, 0>>, 255, <<-8, 12>>)
SampleText == fprint_to_string(SampleRecord)
HeaderComma == Len(BaseText(SampleRecord)) - 1
RStart == HeaderComma + 1
RComma == RStart + 2 * R_SIZE
DomStart == RComma + 1
DomComma == DomStart + 2 * DOM_SIZE
ListStart == DomComma + 1

\* Edits of a text: the character at C index i replaced, characters put
\* in before index i, the text cut to its first n characters.
Put(mem, i, c) == [mem EXCEPT ![i + 1] = c]
Ins(mem, i, text) == SubSeq(mem, 1, i) \o text \o SubSeq(mem, i + 1, Len(mem))
Cut(mem, n) == SubSeq(mem, 1, n) \o <<NUL>>
Chars(c, n) == [i \in 1..n |-> c]

\* The texts a client hands to fprint_from_string, each with the kind of
\* defect it has.
GivenStrings ==
  {[kind |-> "wellformed", mem |-> SampleText],
   [kind |-> "wellformed", mem |-> Put(SampleText, RStart, "f")],
   [kind |-> "short", mem |-> Cut(SampleText, 0)],
   [kind |-> "short", mem |-> Cut(SampleText, ListStart - 3)],
   [kind |-> "header_comma", mem |-> Put(SampleText, HeaderComma, "G")],
   [kind |-> "header_comma", mem |-> Ins(SampleText, HeaderComma, <<"G">>)],
   [kind |-> "header_comma",
    mem |-> Put(Put(Put(SampleText, HeaderComma, "0"), RComma, "0"),
                DomComma, "0")],
   [kind |-> "header_comma",
    mem |-> <<"(", "1", ",", "2", ",", "3">> \o Chars("G", ListStart)
            \o <<",">> \o Chars("0", 7) \o <<NUL>>],
   [kind |-> "r_comma", mem |-> Put(SampleText, RComma, "G")],
   [kind |-> "r_comma", mem |-> Put(SampleText, RComma, "0")],
   [kind |-> "dom_comma", mem |-> Put(SampleText, DomComma, "G")],
   [kind |-> "dom_comma", mem |-> Put(SampleText, DomComma, " ")],
   [kind |-> "r_hex", mem |-> Put(SampleText, RStart, "G")],
   [kind |-> "r_hex", mem |-> Put(SampleText, RStart + 1, "G")],
   [kind |-> "r_hex", mem |-> Put(SampleText, RStart + 7, "G")],
   [kind |-> "r_hex", mem |-> Put(SampleText, RStart + 8, "-")],
   [kind |-> "r_hex", mem |-> Put(SampleText, RComma - 1, "G")],
   [kind |-> "dom_hex", mem |-> Put(SampleText, DomStart, "G")],
   [kind |-> "dom_hex", mem |-> Put(SampleText, DomStart + 3, "G")],
   [kind |-> "wide_codeword",
    mem |-> Ins(SampleText, ListStart + 3, Chars("1", 11))],
   [kind |-> "wide_codeword",
    mem |-> Ins(SampleText, ListStart + 1, Chars("1", 12))],
   [kind |-> "list_character", mem |-> Put(SampleText, ListStart + 1, "G")],
   [kind |-> "list_character", mem |-> Put(SampleText, ListStart + 1, "-")],
   [kind |-> "list_character", mem |-> Put(SampleText, ListStart + 2, ",")]}

\* What may lie in memory behind the terminator of a given text.
Behind == {<<>>, <<",", "0", ")", NUL>>}

InitCodec ==
  /\ \/ /\ cfp \in CodecRecords
        /\ cstr = <<>>
        /\ ckind = "formatted"
        /\ cpc = "record"
     \/ /\ cfp = None
        /\ \E g \in GivenStrings, tail \in Behind :
             /\ cstr = g.mem \o tail
             /\ ckind = g.kind
        /\ cpc = "string"
  /\ cres = None
  /\ CodecRestIdle

Format ==
  /\ cpc = "record"
  /\ cstr' = fprint_to_string(cfp)
  /\ cpc' = "string"
  /\ UNCHANGED <<cfp, ckind, cres, codecRest>>

Parse ==
  /\ cpc = "string"
  /\ cres' = fprint_from_string(cstr)
  /\ cpc' = "parsed"
  /\ UNCHANGED <<cfp, cstr, ckind, codecRest>>

NextCodec == Format \/ Parse

SpecCodec == InitCodec /\ [][NextCodec]_vars

\* C2: for every valid record x (cprint_len >= 1, any 32-bit header
\* fields, any r, dom and codewords), fprint_from_string of
\* fprint_to_string(x) returns a record equal to x in cprint_len, songlen,
\* bit_rate, num_errors, r, dom and every cprint entry.
C2_string_round_trip ==
  (cpc = "parsed" /\ ckind = "formatted") =>
    /\ ~cres.null
    /\ cres.fp.cprint_len = cfp.cprint_len
    /\ cres.fp.songlen = cfp.songlen
    /\ cres.fp.bit_rate = cfp.bit_rate
    /\ cres.fp.num_errors = cfp.num_errors
    /\ cres.fp.r = cfp.r
    /\ cres.fp.dom = cfp.dom
    /\ \A j \in 1..cfp.cprint_len : cres.fp.cprint[j] = cfp.cprint[j]

\* C3: fprint_from_string returns NULL for every text that is shorter than
\* 11 + 2 * R_SIZE + 2 * DOM_SIZE characters, lacks the comma directly
\* after the header, the r block or the dom block, has a non-hex character
\* in the r or dom block, has a codeword wider than 12 characters or has
\* another character in the cprint list than a digit, a leading '-', a
\* space or the closing ')'; and it reads nothing past the end of the text.
C3_malformed_text_fails ==
  cpc = "parsed" =>
    /\ ckind \notin {"formatted", "wellformed"} => cres.null
    /\ ~cres.beyond

\* ------------------------------------------------------------------------
\* Keys of long prints (part_002): the host compresses a table entry,
\* builds the key of a page or splits a page whose entries hold prints
\* around the window bounds 240, 704 and 944.
\* ------------------------------------------------------------------------
\* The longest print of a sample entry.
MaxStoredLen == 950

StoredLens == {1, 2, 239, 240, 241, 703, 704, 705, 943, 944, MaxStoredLen}

\* A record whose codeword at C index k is k, or -k - 1: the codewords tell
\* where in the print they come from.
StoredRecord(n, step) ==
  [new_fprint(n) EXCEPT !.songlen = 100 + (n % 7), !.bit_rate = 128,
                        !.cprint = [i \in 1..n |->
                                      IF step > 0 THEN i - 1 ELSE -i]]

StoredRecords == {StoredRecord(n, step) : n \in StoredLens, step \in {-1, 1}}

\* The records with ascending codewords, in their FPrintUnion reading, and
\* node keys as the index holds them: seed keys over compressed records.
StoredLeaves == {AsUnion(a) : a \in {b \in StoredRecords : b.cprint[1] = 0}}
StoredKeys ==
  {SeedKeyOf(deserialize_fprint(AsFPrint(u)), AsFPrint(u).songlen) :
     u \in StoredLeaves}

\* What realloc may leave in the new tail of a key: the same in every
\* codeword.
JunkTails == {[l \in 1..MAX_KEY_CP_LEN |-> g] : g \in Garbage}

\* Pages of two or three entries with prints of 1, 241 and 950 codewords.
SplitPages(S) ==
  UNION {[1..n -> {a \in S : a.cprint_len \in {1, 241, MaxStoredLen}}] :
           n \in 2..3}

InitKeySize ==
  \/ /\ hop = "compress"
     /\ harg \in {[leafkey |-> TRUE, key |-> a] : a \in StoredRecords}
               \cup {[leafkey |-> FALSE, key |-> AsFPrint(u)] :
                       u \in StoredKeys}
     /\ hret = None
     /\ hpc = "call"
     /\ HostRestIdle
  \/ /\ uleaf \in BOOLEAN
     /\ uvec \in IF uleaf
                 THEN EntryVectors(StoredLeaves)
                 ELSE EntryVectors(StoredKeys)
     /\ ukey = None
     /\ upc = "call"
     /\ UnionRestIdle
  \/ /\ sleaf \in BOOLEAN
     /\ sentv \in IF sleaf
                  THEN SplitPages({AsFPrint(u) : u \in StoredLeaves})
                  ELSE SplitPages({AsFPrint(u) : u \in StoredKeys})
     /\ spl = None
     /\ spc = "call"
     /\ SplitRestIdle

\* GiST calls fprint_compress on an entry.
Compress ==
  /\ hpc = "call"
  /\ hop = "compress"
  /\ hret' = fprint_compress(harg)
  /\ hpc' = "done"
  /\ UNCHANGED <<hop, harg, hostRest>>

NextKeySize ==
  \/ Compress
  \/ \E junk \in JunkTails : CallUnion(junk)
  \/ \E junk \in JunkTails : CallPickSplit(junk)

SpecKeySize == InitKeySize /\ [][NextKeySize]_vars

\* C11: every key the index operators hand back to the host has
\* cprint_len <= MAX_KEY_CP_LEN: the leaf key from fprint_compress, the node
\* key from fprint_union, and spl_ldatum and spl_rdatum from
\* fprint_picksplit, whatever merges and reallocations the key went
\* through.
C11_key_print_capped ==
  /\ (hpc = "done" /\ hop = "compress") =>
       hret.key.cprint_len <= MAX_KEY_CP_LEN
  /\ upc = "done" => ukey.cprint_len <= MAX_KEY_CP_LEN
  /\ spc = "done" =>
       /\ spl.spl_ldatum.cprint_len <= MAX_KEY_CP_LEN
       /\ spl.spl_rdatum.cprint_len <= MAX_KEY_CP_LEN

\* A page key grew to the cap through a reallocation, and a split key was
\* cut from a print longer than the cap.
C11_witness ==
  \/ /\ upc = "done"
     /\ Len(uvec) = 2
     /\ uvec[1].cprint_len = 1
     /\ uvec[2].cprint_len = MaxStoredLen
     /\ ukey.cprint_len = MAX_KEY_CP_LEN
  \/ /\ spc = "done"
     /\ Len(sentv) = 3
     /\ \E k \in 1..3 : sentv[k].cprint_len > MAX_KEY_CP_LEN
     /\ spl.spl_ldatum.cprint_len = MAX_KEY_CP_LEN

\* The codewords of print cp, of length n, that the window rule names:
\* [704, 944) when n >= 944, [464, 704) when 704 <= n < 944, else the prefix
\* [0, min(240, n)).
WindowStart(n) == IF n >= 944 THEN 704 ELSE IF n >= 704 THEN 464 ELSE 0
WindowEnd(n) ==
  IF n >= 944 THEN 944 ELSE IF n >= 704 THEN 704 ELSE IF n > 240 THEN 240 ELSE n
WindowOf(cp, n) ==
  [j \in 1..(WindowEnd(n) - WindowStart(n)) |-> cp[WindowStart(n) + j]]

\* C12: for a record with cprint_len = n (1 <= n < 100000), fprint_compress
\* and deserialize_fprint both copy exactly the codewords of the window
\* that n names, and the window lies inside [0, n).  A page of one entry
\* shows the copy deserialize_fprint makes: it is the key fprint_union
\* returns.
C12_key_window ==
  /\ (hpc = "done" /\ hop = "compress" /\ harg.leafkey) =>
       /\ hret.key.cprint = WindowOf(harg.key.cprint, harg.key.cprint_len)
       /\ hret.key.cprint_len = Len(hret.key.cprint)
       /\ WindowEnd(harg.key.cprint_len) <= harg.key.cprint_len
  /\ (upc = "done" /\ Len(uvec) = 1) =>
       /\ ukey.cprint = WindowOf(uvec[1].cprint, uvec[1].cprint_len)
       /\ ukey.cprint_len = Len(ukey.cprint)
       /\ WindowEnd(uvec[1].cprint_len) <= uvec[1].cprint_len

\* Both functions cut a print from each of the three windows.
C12_witness ==
  \/ /\ hpc = "done"
     /\ hop = "compress"
     /\ harg.leafkey
     /\ harg.key.cprint_len = MaxStoredLen
     /\ hret.key.cprint[1] = 704
  \/ /\ upc = "done"
     /\ Len(uvec) = 1
     /\ uvec[1].cprint_len = 705
     /\ ukey.cprint[1] = 464
     /\ ukey.cprint[MAX_KEY_CP_LEN] = 703

\* ------------------------------------------------------------------------
\* fprint_same (part_002): GiST asks whether two node keys are the same.
\* ------------------------------------------------------------------------
\* The first CALC_FP_SIZE(cprint_len) bytes behind a key: the header, r,
\* dom, the two bytes the compiler pads dom with, and max(cprint_len, 1)
\* codewords.
KeyImage(fp, pad, cprint_len) ==
  <<fp.cprint_len, fp.songlen, fp.bit_rate, fp.num_errors, fp.r, fp.dom, pad,
    SubSeq(fp.cprint, 1, max_st(cprint_len, 1))>>

\* memcmp, as far as its caller looks at it: zero for equal images.
memcmp(image1, image2) == IF image1 = image2 THEN 0 ELSE 1

fprint_same(key_fp1, pad1, leaf_key_fp2, pad2) ==
  IF leaf_key_fp2.cprint_len = key_fp1.cprint_len
  THEN memcmp(KeyImage(leaf_key_fp2, pad2, key_fp1.cprint_len),
              KeyImage(AsFPrint(key_fp1), pad1, key_fp1.cprint_len)) # 0
  ELSE FALSE

\* Node keys: seed keys of the sample records, and the same keys with a
\* wider envelope.
SameKeys ==
  {SeedKeyOf(a, a.songlen) : a \in Records}
    \cup {[SeedKeyOf(a, a.songlen) EXCEPT !.max_songlen = 250] :
            a \in Records}

\* What the two padding bytes of a key may hold.
KeyPads == {<<0, 0>>, <<255, 255>>}

InitSame ==
  /\ hop = "same"
  /\ harg \in [key1 : SameKeys, pad1 : KeyPads, key2 : SameKeys,
               pad2 : {<<0, 0>>}]
  /\ hret = None
  /\ hpc = "call"
  /\ HostRestIdle

Same ==
  /\ hpc = "call"
  /\ hop = "same"
  /\ hret' = fprint_same(harg.key1, harg.pad1, AsFPrint(harg.key2), harg.pad2)
  /\ hpc' = "done"
  /\ UNCHANGED <<hop, harg, hostRest>>

NextSame == Same

SpecSame == InitSame /\ [][NextSame]_vars

\* C13: fprint_same sets its result to true iff the two keys have equal
\* cprint_len and their binary images (header, r, dom and cprint_len
\* codewords) are byte-for-byte equal, and to false otherwise.
C13_same_iff_equal_images ==
  (hpc = "done" /\ hop = "same") =>
    (hret <=> /\ harg.key1.cprint_len = harg.key2.cprint_len
              /\ harg.key1.min_songlen = harg.key2.min_songlen
              /\ harg.key1.bit_rate = harg.key2.bit_rate
              /\ harg.key1.max_songlen = harg.key2.max_songlen
              /\ harg.key1.r = harg.key2.r
              /\ harg.key1.dom = harg.key2.dom
              /\ harg.key1.cprint = harg.key2.cprint)

\* ------------------------------------------------------------------------
\* fprint_consistent (part_002): may the entry, a leaf record or the key of
\* a subtree, hold a record that answers the query?
\* ------------------------------------------------------------------------
FPStrategyEQ == 3
FPStrategyNEQ == 12
FPStrategySame == 6

\* A score threshold given in hundredths.
Hundredths(n) == (n * SCALE) \div 100

\* The leaf branch with the strategy numbers of EQ and NEQ exchanged.
LeafAnswer_eq_neq_swapped(sn, val) ==
  CASE sn = FPStrategySame -> FP_ISMATCH(val)
    [] sn = FPStrategyEQ -> FP_ISNEQ(val)
    [] sn = FPStrategyNEQ -> FP_ISEQ(val)
    [] OTHER -> FP_ISMATCH(val)

\* The switch on the strategy number for a leaf entry.
LeafAnswer(sn, val) ==
  CASE sn = FPStrategySame -> FP_ISMATCH(val)
    [] sn = FPStrategyEQ -> FP_ISEQ(val)
    [] sn = FPStrategyNEQ -> FP_ISNEQ(val)
    [] OTHER -> FP_ISMATCH(val)

\* songlen_diff < num / 100, for songlen_diff the distance of the query's
\* songlen to the envelope over the larger of the two: (min - q) / min
\* below the envelope, (q - max) / q above it.  The float quotient of two
\* integers below 2^24 is below the float constant exactly when the
\* rational one is below the decimal one.
SonglenDiffBelow(q, fpu, num) ==
  IF q < fpu.min_songlen
  THEN (fpu.min_songlen - q) * 100 < num * fpu.min_songlen
  ELSE (q - fpu.max_songlen) * 100 < num * q

\* The node branch with the query's side of the test taken lightly: every
\* key whose envelope holds the query's songlen is accepted.
NodeAnswer_envelope_only(qfp, fpu) ==
  fpu.min_songlen <= qfp.songlen /\ qfp.songlen <= fpu.max_songlen

\* The node branch: retval.
NodeAnswer(qfp, fpu) ==
  IF fpu.min_songlen <= qfp.songlen /\ qfp.songlen <= fpu.max_songlen
  THEN match_fprint_merge(qfp, fpu)
         > (IF qfp.songlen > 150 THEN Hundredths(10)
            ELSE IF qfp.songlen > 40 /\ qfp.songlen < 46 THEN Hundredths(3)
            ELSE Hundredths(8))
  ELSE IF qfp.songlen < 155
  THEN IF qfp.songlen < 61
       THEN IF \/ qfp.songlen < 30 /\ SonglenDiffBelow(qfp.songlen, fpu, 80)
               \/ qfp.songlen < 61 /\ SonglenDiffBelow(qfp.songlen, fpu, 60)
            THEN match_fprint_merge(qfp, fpu) > Hundredths(8)
            ELSE FALSE
       ELSE IF \/ qfp.songlen < 110 /\ SonglenDiffBelow(qfp.songlen, fpu, 7)
               \/ qfp.songlen < 155 /\ SonglenDiffBelow(qfp.songlen, fpu, 5)
       THEN match_fprint_merge(qfp, fpu)
              > (IF qfp.songlen > 150 THEN Hundredths(15) ELSE Hundredths(8))
       ELSE FALSE
  ELSE FALSE

\* if (!retval) *recheck = false, after *recheck = true.
NodeResult(retval) == [retval |-> retval, recheck |-> retval]

\* fprint_consistent past the deserialising of its two arguments.
Consistent(leaf, fp, qfp, sn) ==
  IF Raised(fp) \/ Raised(qfp) THEN ElogError
  ELSE IF IsNULL(fp) \/ IsNULL(qfp) THEN [retval |-> FALSE, recheck |-> FALSE]
  ELSE IF leaf
  THEN [retval |-> LeafAnswer(sn, match_cpfm(qfp, fp)), recheck |-> FALSE]
  ELSE NodeResult(NodeAnswer(qfp, AsUnion(fp)))

fprint_consistent(entry, query, sn) ==
  Consistent(entry.leaf, deserialize_fprint(entry.key),
             deserialize_fprint(query), sn)

\* A query record of the given songlen whose first k bytes of r are 0xFF
\* and the rest zero.
QueryRecord(songlen, k, cp) ==
  [NewRecord(songlen, 0, cp) EXCEPT
     !.r = [i \in 1..R_SIZE |-> IF i <= k THEN 255 ELSE 0]]

\* Leaf entries and the queries put to them: the same song, songs of
\* nearly the same length, and songs too far apart in length.
LeafEntries == {a \in Records : a.songlen \in {100, 105}}
LeafQueries ==
  {QueryRecord(songlen, k, cp) :
     songlen \in {100, 120}, k \in {0, 40, 240}, cp \in Cprints}
StrategyNumbers == {FPStrategyEQ, FPStrategySame, FPStrategyNEQ, 1}

\* Node keys <<12, 12>> with r = dom = 0 under a range of envelopes, and
\* queries <<12, -8>> whose score against them runs from 0.016 to 0.158.
Envelopes ==
  {<<5, 10>>, <<99, 99>>, <<100, 100>>, <<40, 160>>, <<107, 120>>,
   <<108, 120>>, <<117, 130>>, <<118, 130>>, <<124, 200>>, <<125, 200>>,
   <<159, 170>>, <<160, 170>>, <<4, 4>>, <<20, 8>>}
NodeKeys ==
  {[SeedKeyOf(NewRecord(0, 0, <<12, 12>>), e[1]) EXCEPT !.max_songlen = e[2]] :
     e \in Envelopes}
NodeQueries ==
  {QueryRecord(songlen, k, <<12, -8>>) :
     songlen \in {20, 29, 30, 43, 50, 60, 61, 100, 109, 110, 152, 154, 155,
                  160},
     k \in {0, 80, 120, 160, 240}}

InitConsistent ==
  /\ hop = "consistent"
  /\ harg \in [entry : {[leaf |-> TRUE, key |-> a] : a \in LeafEntries},
               query : LeafQueries, sn : StrategyNumbers]
              \cup [entry : {[leaf |-> FALSE, key |-> AsFPrint(u)] :
                               u \in NodeKeys},
                    query : NodeQueries, sn : {FPStrategySame}]
  /\ hret = None
  /\ hpc = "call"
  /\ HostRestIdle

CallConsistent ==
  /\ hpc = "call"
  /\ hop = "consistent"
  /\ hret' = fprint_consistent(harg.entry, harg.query, harg.sn)
  /\ hpc' = "done"
  /\ UNCHANGED <<hop, harg, hostRest>>

NextConsistent == CallConsistent

SpecConsistent == InitConsistent /\ [][NextConsistent]_vars

\* The answers fprint_consistent gives for the same leaf and query under
\* the three strategies, from the score the spec names.
LeafScore == match_cpfm(harg.query, harg.entry.key)

\* C14: for a leaf entry, fprint_consistent computes v = match_cpfm(q,
\* leaf) and returns v > 0.98 for strategy 3 (EQ), v <= 0.98 for strategy
\* 12 (NEQ) and v > 0.6 for strategy 6 (MATCH), and sets recheck to false;
\* hence EQ and NEQ are never both true or both false for the same q and
\* leaf, and EQ true implies MATCH true.
C14_leaf_answers ==
  (hpc = "done" /\ hop = "consistent" /\ harg.entry.leaf) =>
    /\ ~hret.recheck
    /\ harg.sn = 3 => (hret.retval <=> LeafScore > 980000)
    /\ harg.sn = 12 => (hret.retval <=> LeafScore <= 980000)
    /\ harg.sn = 6 => (hret.retval <=> LeafScore > 600000)
    /\ (harg.sn = 3 /\ hret.retval) =>
         /\ ~fprint_consistent(harg.entry, harg.query, 12).retval
         /\ fprint_consistent(harg.entry, harg.query, 6).retval
    /\ (harg.sn = 3 /\ ~hret.retval) =>
         fprint_consistent(harg.entry, harg.query, 12).retval

\* EQ was asked of a leaf whose score lies between the two cutoffs: the
\* answer is false, where NEQ and MATCH answer true.
C14_witness ==
  /\ hpc = "done"
  /\ hop = "consistent"
  /\ harg.entry.leaf
  /\ harg.sn = 3
  /\ ~hret.retval
  /\ LeafScore > 600000

\* The score of the query against the node key, the songlen of the query,
\* and whether the key's envelope holds it.
NodeScore == match_fprint_merge(harg.query, AsUnion(harg.entry.key))
QuerySonglen == harg.query.songlen
InEnvelope ==
  /\ harg.entry.key.songlen <= QuerySonglen
  /\ QuerySonglen <= harg.entry.key.num_errors
DistanceBelow(pct) ==
  SonglenDiffBelow(QuerySonglen, AsUnion(harg.entry.key), pct)

MILLI == 10 ^ 3
ToInt(w) == Hi(w) * TwoTo16 + Lo(w)

\* What the call leaves behind: whether it returned, raised an error or
\* faulted, what it wrote to *penalty, and the value in thousandths.
PenaltyWritten(penalty) ==
  [outcome |-> "return", written |-> "value", penalty |-> penalty]
PenaltyMissing == [outcome |-> "return", written |-> "1e10f", penalty |-> 0]
PenaltyRaised == [outcome |-> "elog", written |-> "nothing", penalty |-> 0]
PenaltyFault == [outcome |-> "SIGSEGV", written |-> "nothing", penalty |-> 0]

\* orig_size and new_size, in uint32_t.
OrigSize(orig_fp) == Sub32(U32(orig_fp.max_songlen), U32(orig_fp.min_songlen))
NewSize(orig_fp, new_songlen) ==
  Sub32(U32(max_u32(orig_fp.max_songlen, new_songlen)),
        U32(min_u32(orig_fp.min_songlen, new_songlen)))

\* songlen_diff: (float)(new_size - orig_size) / (float)new_size * 2000.0f
\* when new_size > 0, else 0.
SonglenTerm(orig_size, new_size) ==
  IF new_size # Zero32
  THEN MulDiv(ToInt(Sub32(new_size, orig_size)), 2000 * MILLI, ToInt(new_size))
  ELSE 0

\* (1.0f - match) * 100.0f for a positive match, else 100.0f.
MatchTerm(match) ==
  IF match > 0 THEN ((SCALE - match) * 100) \div (SCALE \div MILLI)
  ELSE 100 * MILLI

\* The two terms with their weights exchanged.
PenaltyValue_weights_swapped(orig_fp, new_fp, new_songlen) ==
  MatchTerm(match_fprint_merge(new_fp, orig_fp)) * 20
  + SonglenTerm(OrigSize(orig_fp), NewSize(orig_fp, new_songlen)) \div 20

\* *penalty = match + songlen_diff.
PenaltyValue(orig_fp, new_fp, new_songlen) ==
  MatchTerm(match_fprint_merge(new_fp, orig_fp))
  + SonglenTerm(OrigSize(orig_fp), NewSize(orig_fp, new_songlen))

\* fprint_penalty past the deserialising of its two arguments.  The
\* function reads new_fp->songlen before it tests new_fp for NULL: with a
\* null new_fp the read is undefined, and the build either faults there or
\* has moved the read behind the test (fault says which).
Penalty(orig_fp, new_fp, fault) ==
  IF Raised(orig_fp) \/ Raised(new_fp) THEN PenaltyRaised
  ELSE IF IsNULL(new_fp) THEN (IF fault THEN PenaltyFault ELSE PenaltyMissing)
  ELSE IF IsNULL(orig_fp) THEN PenaltyMissing
  ELSE PenaltyWritten(PenaltyValue(AsUnion(orig_fp), new_fp, new_fp.songlen))

fprint_penalty(orig_ge, new_ge, fault) ==
  Penalty(deserialize_fprint(orig_ge.key), deserialize_fprint(new_ge.key),
          fault)

\* Entries that cannot be deserialised: a datum of size zero and a record
\* whose cprint_len is 100000; and one that is refused: cprint_len 100001.
Undeserialisable ==
  {EmptyDatum, [NewRecord(100, 0, <<12>>) EXCEPT !.cprint_len = 100000]}
Refused == {[NewRecord(100, 0, <<12>>) EXCEPT !.cprint_len = 100001]}

PenaltyOrigs == {AsFPrint(u) : u \in NodeKeys}

InitPenalty ==
  /\ hop = "penalty"
  /\ harg \in [orig : {[key |-> u] : u \in PenaltyOrigs},
               new : {[key |-> a] : a \in NodeQueries}]
              \cup [orig : {[key |-> u] :
                              u \in PenaltyOrigs \cup Undeserialisable
                                      \cup Refused},
                    new : {[key |-> a] :
                             a \in {QueryRecord(100, 0, <<12>>)}
                                     \cup Undeserialisable \cup Refused}]
  /\ hret = None
  /\ hpc = "call"
  /\ HostRestIdle

CallPenalty(fault) ==
  /\ hpc = "call"
  /\ hop = "penalty"
  /\ hret' = fprint_penalty(harg.orig, harg.new, fault)
  /\ hpc' = "done"
  /\ UNCHANGED <<hop, harg, hostRest>>

NextPenalty == \E fault \in BOOLEAN : CallPenalty(fault)

SpecPenalty == InitPenalty /\ [][NextPenalty]_vars

\* The node key and the record of a penalty call that had both, and the
\* two terms the penalty is the sum of, in thousandths and in unbounded
\* arithmetic.
PenaltyOrig == AsUnion(harg.orig.key)
PenaltyNew == harg.new.key
BothPresent ==
  /\ hop = "penalty"
  /\ hpc = "done"
  /\ hret.written = "value"
EnvelopeWith ==
  max_u32(PenaltyOrig.max_songlen, PenaltyNew.songlen)
  - min_u32(PenaltyOrig.min_songlen, PenaltyNew.songlen)
EnvelopeGrowth ==
  EnvelopeWith - (PenaltyOrig.max_songlen - PenaltyOrig.min_songlen)
ExpectedMatchTerm ==
  IF match_fprint_merge(PenaltyNew, PenaltyOrig) > 0
  THEN (1000000 - match_fprint_merge(PenaltyNew, PenaltyOrig)) \div 10
  ELSE 100000
ExpectedSonglenTerm ==
  IF EnvelopeWith > 0 THEN (2000000 * EnvelopeGrowth) \div EnvelopeWith ELSE 0

\* C16: for every node key orig with min_songlen <= max_songlen and every
\* record new, fprint_penalty writes a value in [0, 2100]: the match term
\* (1 - match_fprint_merge(new, orig)) * 100, or 100 when the match is not
\* positive, plus the songlen term 2000 * (new_size - orig_size) / new_size,
\* which is 0 exactly when new.songlen lies inside orig's envelope; the
\* 32-bit unsigned sizes are the unbounded ones (nothing wraps).
C16_penalty_range ==
  (BothPresent /\ PenaltyOrig.min_songlen <= PenaltyOrig.max_songlen) =>
    /\ hret.penalty >= 0
    /\ hret.penalty <= 2100000
    /\ hret.penalty = ExpectedMatchTerm + ExpectedSonglenTerm
    /\ ExpectedSonglenTerm = 0 <=>
         /\ PenaltyOrig.min_songlen <= PenaltyNew.songlen
         /\ PenaltyNew.songlen <= PenaltyOrig.max_songlen
    /\ OrigSize(PenaltyOrig)
         = U32(PenaltyOrig.max_songlen - PenaltyOrig.min_songlen)
    /\ NewSize(PenaltyOrig, PenaltyNew.songlen) = U32(EnvelopeWith)

\* A record far outside the envelope of a key it does not match at all
\* was priced above 2000.
C16_witness ==
  /\ BothPresent
  /\ PenaltyOrig.min_songlen < PenaltyOrig.max_songlen
  /\ PenaltyNew.songlen > PenaltyOrig.max_songlen
  /\ hret.penalty > 2000000

\* C17: when either the existing key orig or the candidate record new
\* cannot be deserialised (is missing or invalid), fprint_penalty writes
\* the very large constant 1e10 to its out-parameter and returns, without
\* touching any field of the missing side.
C17_missing_side_penalty ==
  (hop = "penalty" /\ hpc = "done"
   /\ \/ harg.orig.key \in Undeserialisable \cup Refused
      \/ harg.new.key \in Undeserialisable \cup Refused) =>
    /\ hret.outcome = "return"
    /\ hret.written = "1e10f"

\* ------------------------------------------------------------------------
\* The chroma kernels a client calls on two prints (fplib.c): match_chroma,
\* match_chromat and match_chromac.  A double is finite, with its value in
\* millionths, or an infinity, or NaN.
\* ------------------------------------------------------------------------
Finite(val) == [kind |-> "finite", val |-> val]
NaN == [kind |-> "nan", val |-> 0]
Infinity == [kind |-> "inf", val |-> 0]

\* (double)x / (double)y for two non-negative integers.
DoubleDiv(x, y) ==
  IF y = 0 THEN (IF x = 0 THEN NaN ELSE Infinity)
  ELSE Finite(MulDiv(x, SCALE, y))

\* The integer part of the square root of x, 0 <= x <= SCALE.
ISqrt(x) == CHOOSE k \in 0..MILLI : k * k <= x /\ (k + 1) * (k + 1) > x

ACOUSTID_MAX_ALIGN_OFFSET == 120
ACOUSTID_MAX_BIT_ERROR == 2

\* counts[i - j + cp2_len] for the offset d = i - j: the pairs the two
\* loops of match_chroma count.  i - ACOUSTID_MAX_ALIGN_OFFSET is computed
\* in size_t: below the offset it wraps to a number beyond every jend and
\* the inner loop does not run.
ChromaCount(cp1, cp1_len, cp2, cp2_len, start, d) ==
  Cardinality(
    {i \in start..(cp1_len - 1) :
       /\ i >= ACOUSTID_MAX_ALIGN_OFFSET
       /\ i - d >= max_st(i - ACOUSTID_MAX_ALIGN_OFFSET, start)
       /\ i - d < min_st(i + ACOUSTID_MAX_ALIGN_OFFSET, cp2_len)
       /\ pop32(Xor32(U32(cp1[i + 1]), U32(cp2[i - d + 1])))
            <= ACOUSTID_MAX_BIT_ERROR})

\* topcount: the largest entry of counts.
TopCount(cp1, cp1_len, cp2, cp2_len, start) ==
  LET counts == [d \in (0 - cp2_len)..cp1_len |->
                   ChromaCount(cp1, cp1_len, cp2, cp2_len, start, d)]
  IN  CHOOSE c \in {counts[d] : d \in DOMAIN counts} :
        \A d \in DOMAIN counts : counts[d] <= c

\* The return of match_chroma: (double)topcount / (double)(cp2_len - start),
\* the difference taken in size_t.  Below start the difference wraps to a
\* number near 2^64 and the quotient is below every millionth.
ChromaQuotient(topcount, cp2_len, start) ==
  IF cp2_len < start THEN Finite(0) ELSE DoubleDiv(topcount, cp2_len - start)

\* match_chroma once cp1 is the longer print: the seek into the stream,
\* then the counts.
ChromaSeek(cp1, cp1_len, cp2, cp2_len, start, end) ==
  IF start > 0 /\ end > start
  THEN ChromaQuotient(TopCount(cp1, min_st(cp1_len, end), cp2,
                               min_st(cp2_len, end), start),
                      min_st(cp2_len, end), start)
  ELSE ChromaQuotient(TopCount(cp1, cp1_len, cp2, cp2_len, 0), cp2_len, 0)

match_chroma(cp1, cp1_len, cp2, cp2_len, start, end) ==
  IF cp2_len > cp1_len
  THEN ChromaSeek(cp2, cp2_len, cp1, cp1_len, start, end)
  ELSE ChromaSeek(cp1, cp1_len, cp2, cp2_len, start, end)

\* pop32 of the AND and of the OR of the codewords at C index k.
PopAnd(cp1, cp2, k) == pop32(And32(U32(cp1[k + 1]), U32(cp2[k + 1])))
PopOr(cp1, cp2, k) == pop32(Or32(U32(cp1[k + 1]), U32(cp2[k + 1])))

\* The main loop of match_chromat: i runs over 0, 4, 8, ... below end while
\* both pointers advance by four in each round, so round i reads the
\* codewords 2i .. 2i+3 through cp1_32[i + k] for tdiff and the codewords
\* i .. i+3 through *cp1_32++ for tcomm.
RECURSIVE ChromatMain(_, _, _, _, _)
ChromatMain(cp1, cp2, end, i, t) ==
  IF i >= end THEN t
  ELSE ChromatMain(cp1, cp2, end, i + 4,
                   [tdiff |-> t.tdiff
                                + SumLoop([k \in 0..3 |->
                                             PopAnd(cp1, cp2, 2 * i + k)],
                                          0, 4),
                    tcomm |-> t.tcomm
                                + SumLoop([k \in 0..3 |->
                                             PopOr(cp1, cp2, i + k)], 0, 4),
                    at |-> t.at + 4])

\* The remainder loop: tdiff is assigned, tcomm is added to.
RECURSIVE ChromatRem(_, _, _, _)
ChromatRem(cp1, cp2, rem, t) ==
  IF rem = 0 THEN t
  ELSE ChromatRem(cp1, cp2, rem - 1,
                  [tdiff |-> PopAnd(cp1, cp2, t.at),
                   tcomm |-> t.tcomm + PopOr(cp1, cp2, t.at),
                   at |-> t.at + 1])

ChromatReturn(t) ==
  IF t.tdiff = 0 THEN Finite(SCALE)
  ELSE IF t.tcomm = 0 THEN Finite(0)
  ELSE DoubleDiv(t.tdiff, t.tcomm)

match_chromat(cp1, cp1_len, cp2, cp2_len) ==
  IF min_st(cp1_len, cp2_len) = 0 THEN Finite(0)
  ELSE ChromatReturn(
         ChromatRem(cp1, cp2, min_st(cp1_len, cp2_len) % 4,
                    ChromatMain(cp1, cp2, min_st(cp1_len, cp2_len) \div 4, 0,
                                [tdiff |-> 0, tcomm |-> 0, at |-> 0])))

\* fabs(r) for r = num / (sqrt(dx) * sqrt(dy)); num * num <= dx * dy.  The
\* value is kept to three decimals.
Correlation(num, dx, dy) ==
  IF dx = 0 \/ dy = 0 THEN (IF num = 0 THEN NaN ELSE Infinity)
  ELSE Finite(ISqrt(MulDiv(num * num, SCALE, dx * dy)) * MILLI)

\* The sums of match_chromac over the first n codewords of x and y.
SumOf(x, n) == SumLoop([i \in 0..(n - 1) |-> x[i + 1]], 0, n)
SumOfProducts(x, y, n) ==
  SumLoop([i \in 0..(n - 1) |-> x[i + 1] * y[i + 1]], 0, n)

match_chromac(cp1, cp1_len, cp2, cp2_len) ==
  Correlation(
    min_st(cp1_len, cp2_len)
      * SumOfProducts(cp1, cp2, min_st(cp1_len, cp2_len))
    - SumOf(cp1, min_st(cp1_len, cp2_len))
      * SumOf(cp2, min_st(cp1_len, cp2_len)),
    min_st(cp1_len, cp2_len)
      * SumOfProducts(cp1, cp1, min_st(cp1_len, cp2_len))
    - SumOf(cp1, min_st(cp1_len, cp2_len))
      * SumOf(cp1, min_st(cp1_len, cp2_len)),
    min_st(cp1_len, cp2_len)
      * SumOfProducts(cp2, cp2, min_st(cp1_len, cp2_len))
    - SumOf(cp2, min_st(cp1_len, cp2_len))
      * SumOf(cp2, min_st(cp1_len, cp2_len)))

\* The prints the chroma kernels are called on: the empty print and short
\* prints over a zero, a negative and a positive codeword; three prints of
\* three codewords; three of 24 codewords (zeros, twelves, and a twelve
\* followed by zeros up to C index 7 and twelves from there on); and one
\* as long as the alignment window.
KernelCodeWords == {0, -8, 12}
LongLen == 24
WindowLen == ACOUSTID_MAX_ALIGN_OFFSET + 1
KernelPrints ==
  {<<>>} \cup UNION {[1..n -> KernelCodeWords] : n \in 1..MaxCpLen}
TriplePrints == {<<0, -8, 12>>, <<12, 0, -8>>, <<0, 0, 12>>}
LongPrints ==
  {[k \in 1..LongLen |-> 0], [k \in 1..LongLen |-> 12],
   [k \in 1..LongLen |-> IF k = 1 \/ k > 8 THEN 12 ELSE 0]}
WindowPrints == {[k \in 1..WindowLen |-> 12]}
Seeks == {<<0, 0>>, <<1, 2>>, <<2, 3>>, <<2, 1>>}

InitKernels ==
  /\ \/ /\ hop \in {"match_chromac"}
        /\ harg \in [cp1 : KernelPrints \cup TriplePrints,
                     cp2 : KernelPrints \cup TriplePrints, seek : {<<0, 0>>}]
     \/ /\ hop \in {"match_chromat"}
        /\ harg \in [cp1 : KernelPrints \cup LongPrints,
                     cp2 : KernelPrints \cup LongPrints, seek : {<<0, 0>>}]
     \/ /\ hop \in {"match_chroma"}
        /\ harg \in [cp1 : KernelPrints \cup WindowPrints,
                     cp2 : KernelPrints \cup WindowPrints, seek : Seeks]
  /\ hret = None
  /\ hpc = "call"
  /\ HostRestIdle

CallChromac ==
  /\ hpc = "call"
  /\ hop = "match_chromac"
  /\ hret' = match_chromac(harg.cp1, Len(harg.cp1), harg.cp2, Len(harg.cp2))
  /\ hpc' = "done"
  /\ UNCHANGED <<hop, harg, hostRest>>

CallChromat ==
  /\ hpc = "call"
  /\ hop = "match_chromat"
  /\ hret' = match_chromat(harg.cp1, Len(harg.cp1), harg.cp2, Len(harg.cp2))
  /\ hpc' = "done"
  /\ UNCHANGED <<hop, harg, hostRest>>

CallChroma ==
  /\ hpc = "call"
  /\ hop = "match_chroma"
  /\ hret' = match_chroma(harg.cp1, Len(harg.cp1), harg.cp2, Len(harg.cp2),
                          harg.seek[1], harg.seek[2])
  /\ hpc' = "done"
  /\ UNCHANGED <<hop, harg, hostRest>>

NextKernels == CallChromac \/ CallChromat \/ CallChroma

SpecKernels == InitKernels /\ [][NextKernels]_vars

\* C20: no similarity kernel divides by zero or returns NaN: match_chromac
\* (zero variance on either side, or fewer than two paired codewords),
\* match_chromat (tcomm = 0) and match_chroma (cp2_len equal to start) each
\* return a defined number in [0, 1] for every input, these degenerate
\* ones included.
C20_kernels_defined ==
  (hpc = "done" /\ hop \in {"match_chromac", "match_chromat", "match_chroma"})
    => /\ hret.kind = "finite"
       /\ hret.val >= 0
       /\ hret.val <= 1000000

\* ------------------------------------------------------------------------
\* Scoring records against the keys that hold them (fplib.c
\* match_fprint_merge): a client builds a key as in SpecMerge, from the
\* records with a one-codeword print or the longest print.
\* ------------------------------------------------------------------------
CoverRecords ==
  {a \in Records :
     a.cprint \in {<<12>>, <<-8>>,
                   [k \in 1..MaxCpLen |-> IF k = 1 THEN 12 ELSE -8]}}

NextCover ==
  \/ \E a, b \in CoverRecords : Merge(a, b)
  \/ \E a \in CoverRecords : SeedKey(a)
  \/ \E a \in CoverRecords : MergeOne(a)

SpecCover == InitMerge /\ [][NextCover]_vars

\* Key u bitwise covers record a: a's r, dom and cprint bits are bits of u,
\* and u's print is at least as long.
BitCovers(u, a) ==
  /\ u.cprint_len >= a.cprint_len
  /\ \A k \in 1..a.cprint_len :
       And32(U32(u.cprint[k]), U32(a.cprint[k])) = U32(a.cprint[k])
  /\ \A i \in 1..DOM_SIZE : BitAnd(a.dom[i], u.dom[i]) = a.dom[i]
  /\ \A i \in 1..R_SIZE : BitAnd(a.r[i], u.r[i]) = a.r[i]

\* A score that is at least 0.8, and is 1.0.
FullScore(val) == val >= 800000 /\ val = 1000000

\* C19: for every record a with cprint_len >= 1 and every union key u that
\* bitwise covers a (a.r, a.dom and every a.cprint[k] are subsets of u's,
\* with u.cprint_len >= a.cprint_len), whatever other records were merged
\* into u, match_fprint_merge(a, u) >= 0.8, in fact exactly 1.0; so for
\* each of three identical records merged into u.
C19_covered_record_matches ==
  mop \in {"merge", "seed", "merge_one"} =>
    \A a \in CoverRecords :
      BitCovers(mu, a) => FullScore(match_fprint_merge(a, mu))

\* Three identical records were merged into a key, and a key that holds
\* three different records covers a fourth.
C19_witness ==
  /\ mop = "merge_one"
  /\ \/ mpre = union(marg, marg)
     \/ /\ ~BitCovers(mpre, marg)
        /\ \E a \in CoverRecords :
             /\ BitCovers(mu, a)
             /\ ~BitCovers(mpre, a)
             /\ a # marg

\* ------------------------------------------------------------------------
\* Splitting a page of identical leaves (part_002): GiST calls
\* fprint_picksplit on the page, then asks fprint_same whether each side's
\* key is the key fprint_union gives for the whole page.
\* ------------------------------------------------------------------------
\* The largest page of identical leaves.
MaxTwins == 6

\* Leaves with one codeword: of songlen 0 and of songlen 100, and one of
\* songlen 100 whose num_errors is 100 as well.
TwinRecords ==
  {a \in Records : a.cprint = <<12>> /\ a.songlen \in {0, 100}}
    \cup {[NewRecord(100, 0, <<12>>) EXCEPT !.num_errors = 100]}

InitTwins ==
  /\ sleaf = TRUE
  /\ sentv \in {[k \in 1..n |-> a] : n \in 3..MaxTwins, a \in TwinRecords}
  /\ spl = None
  /\ spc = "call"
  /\ SplitRestIdle

\* The two calls of fprint_same, each with a side's key and the page key.
SameAsPageKey(pagekey) ==
  [pagekey |-> pagekey,
   left |-> fprint_same(spl.spl_ldatum, <<0, 0>>, AsFPrint(pagekey), <<0, 0>>),
   right |-> fprint_same(spl.spl_rdatum, <<0, 0>>, AsFPrint(pagekey), <<0, 0>>)]

CallSameOnSides(junk) ==
  /\ spc = "done"
  /\ hpc = "idle"
  /\ hret' = SameAsPageKey(fprint_union([k \in 1..Len(sentv) |->
                                           AsUnion(sentv[k])], junk))
  /\ hop' = "same"
  /\ hpc' = "done"
  /\ UNCHANGED <<harg, splitVars, matchVars, mergeVars, keyVars, unionVars,
                 codecVars>>

NextTwins ==
  \/ \E junk \in JunkTails : CallPickSplit(junk)
  \/ \E junk \in JunkTails : CallSameOnSides(junk)

SpecTwins == InitTwins /\ [][NextTwins]_vars

\* C18: fprint_picksplit on n >= 3 identical leaf records produces sides
\* whose sizes differ by at most one (3 and 3 for n = 6), and the left key
\* and the right key are each reported equal by fprint_same to the single
\* key obtained by merging all the records.
C18_identical_leaves_split ==
  /\ spc = "done" =>
       /\ spl.spl_nleft + spl.spl_nright = Len(sentv)
       /\ spl.spl_nleft - spl.spl_nright \in {-1, 0, 1}
       /\ Len(sentv) = 6 => (spl.spl_nleft = 3 /\ spl.spl_nright = 3)
  /\ (spc = "done" /\ hpc = "done" /\ hop = "same") =>
       (hret.left /\ hret.right)

\* ------------------------------------------------------------------------
\* Hamming weights (fplib.c: pop16, hdist_dom)
\* ------------------------------------------------------------------------
hdist_dom(dom_a, dom_b) ==
  DiffDom([j \in 0..(DOM_LEN32 - 1) |->
             Xor32(Word32(dom_a, j), Word32(dom_b, j))],
          BitXor(Word16(dom_a, DOM_END16), Word16(dom_b, DOM_END16)))

\* The number of set bits among the low width bits of x, bit by bit.
BitCount(x, width) ==
  Cardinality({k \in 0..(width - 1) : (x \div Pow2(k)) % 2 = 1})

\* The Hamming distance of two byte arrays of the same length.
HammingDistance(bytes_a, bytes_b) ==
  SumLoop([i \in 1..Len(bytes_a) |->
             BitCount(BitXor(bytes_a[i], bytes_b[i]), CHAR_BIT)],
          1, Len(bytes_a) + 1)

\* dom arrays: every byte the same, the descending ramp, and arrays that
\* are zero but for one byte (the first, or one of the last two, which
\* make up the 16-bit tail).
DomBytes == {0, 1, 255}
DomArrays ==
  {[i \in 1..DOM_SIZE |-> b] : b \in DomBytes}
  \cup {Pat(255, DOM_SIZE)}
  \cup {[i \in 1..DOM_SIZE |-> IF i = at THEN b ELSE 0] :
          at \in {1, DOM_SIZE - 1, DOM_SIZE}, b \in DomBytes \ {0}}

InitBits ==
  /\ \/ /\ hop \in {"pop16"}
        /\ harg \in 0..(TwoTo16 - 1)
     \/ /\ hop \in {"hdist_dom"}
        /\ harg \in [dom_a : DomArrays, dom_b : DomArrays]
  /\ hret = None
  /\ hpc = "call"
  /\ HostRestIdle

CallPop16 ==
  /\ hpc = "call"
  /\ hop = "pop16"
  /\ hret' = pop16(harg)
  /\ hpc' = "done"
  /\ UNCHANGED <<hop, harg, hostRest>>

CallHdistDom ==
  /\ hpc = "call"
  /\ hop = "hdist_dom"
  /\ hret' = hdist_dom(harg.dom_a, harg.dom_b)
  /\ hpc' = "done"
  /\ UNCHANGED <<hop, harg, hostRest>>

NextBits == CallPop16 \/ CallHdistDom

SpecBits == InitBits /\ [][NextBits]_vars

\* C21: pop16(x) is the number of set bits of x for every 16-bit x, so
\* hdist_dom(a, b) is the Hamming distance of the 528 bits of a XOR b and
\* never exceeds 528.
C21_pop16_counts_bits ==
  /\ (hpc = "done" /\ hop = "pop16") => hret = BitCount(harg, 16)
  /\ (hpc = "done" /\ hop = "hdist_dom")
       => /\ hret = HammingDistance(harg.dom_a, harg.dom_b)
          /\ hret <= DOM_SIZE * CHAR_BIT

\* ------------------------------------------------------------------------
\* The Tanimoto kernel against the sums over every paired codeword
\* ------------------------------------------------------------------------
PairedLen == min_st(Len(harg.cp1), Len(harg.cp2))
TotalAnd ==
  SumLoop([k \in 0..(PairedLen - 1) |-> PopAnd(harg.cp1, harg.cp2, k)],
          0, PairedLen)
TotalOr ==
  SumLoop([k \in 0..(PairedLen - 1) |-> PopOr(harg.cp1, harg.cp2, k)],
          0, PairedLen)

\* C22: for codeword sequences with n = min(|cp1|, |cp2|) >= 1,
\* match_chromat returns tdiff / tcomm, tdiff the sum over all i < n of
\* popcount(cp1[i] & cp2[i]) and tcomm the sum over all i < n of
\* popcount(cp1[i] | cp2[i]); 1 when tdiff = 0 and 0 when tcomm = 0 (either
\* of the two when both sums are zero).
C22_chromat_is_tanimoto ==
  (hpc = "done" /\ hop = "match_chromat" /\ PairedLen >= 1)
    => IF TotalOr = 0 THEN hret \in {Finite(0), Finite(SCALE)}
       ELSE IF TotalAnd = 0 THEN hret = Finite(SCALE)
       ELSE hret = DoubleDiv(TotalAnd, TotalOr)

\* ------------------------------------------------------------------------
\* Descending the index: a node key against the leaves under it
\* (fprint_consistent on both levels)
\* ------------------------------------------------------------------------
\* The key of a page of leaf records as fprint_picksplit builds it: the
\* first record copied as the seed, every other record assigned to it.
RECURSIVE PageKey(_, _, _, _)
PageKey(leaves, k, fp_u, junk) ==
  IF k > Len(leaves) THEN fp_u
  ELSE PageKey(leaves, k + 1, AssignKey(fp_u, leaves[k], TRUE, junk), junk)

\* The answers of the node entry holding the page's key and of every leaf
\* entry of the page.
Descend(leaves, query, sn, junk) ==
  [node |-> fprint_consistent(
              [leaf |-> FALSE,
               key |-> AsFPrint(PageKey(leaves, 2,
                                        SeedKeyOf(leaves[1],
                                                  leaves[1].songlen),
                                        junk))],
              query, sn),
   leaves |-> [k \in 1..Len(leaves) |->
                 fprint_consistent([leaf |-> TRUE, key |-> leaves[k]],
                                   query, sn)]]

\* Pages of one or two records, and queries that are one of the stored
\* records measured at a slightly different length.
DescendLeaves == {a \in Records : a.cprint \in {<<12>>, <<-8, 12>>}}
DescendPages == {<<a>> : a \in DescendLeaves}
                \cup {<<a, b>> : a, b \in DescendLeaves}
DescendSonglens == {100, 105, 108, 200, 210}
DescendStrategies == {FPStrategyEQ, FPStrategySame, FPStrategyNEQ}

InitDescend ==
  /\ hop = "descend"
  /\ harg \in {[leaves |-> p, query |-> [p[1] EXCEPT !.songlen = s],
                sn |-> sn] :
                 p \in DescendPages, s \in DescendSonglens,
                 sn \in DescendStrategies}
  /\ hret = None
  /\ hpc = "call"
  /\ HostRestIdle

CallDescend(junk) ==
  /\ hpc = "call"
  /\ hop = "descend"
  /\ hret' = Descend(harg.leaves, harg.query, harg.sn, junk)
  /\ hpc' = "done"
  /\ UNCHANGED <<hop, harg, hostRest>>

NextDescend == \E junk \in JunkTails : CallDescend(junk)

SpecDescend == InitDescend /\ [][NextDescend]_vars

\* C23: index search has no false negatives at node level: for each of
\* the strategies EQ, MATCH and NEQ, whenever fprint_consistent answers
\* true for a leaf record under a node key built by merging the page's
\* leaf records, it answers true for that node key.
C23_no_false_negatives ==
  (hpc = "done" /\ hop = "descend")
    => ((\E k \in 1..Len(harg.leaves) : hret.leaves[k].retval)
          => hret.node.retval)

\* ------------------------------------------------------------------------
\* Further claims on fprint_picksplit (SpecSplit)
\* ------------------------------------------------------------------------
\* How often offset k stands in the array side.
Occurrences(side, k) == Cardinality({j \in 1..Len(side) : side[j] = k})

\* The scan of the page that was split.
PageScan == Scan([k \in 1..Len(sentv) |-> deserialize_fprint(sentv[k])], sleaf)

\* C24: fprint_picksplit partitions its input: for n >= 2 valid entries
\* every offset 1..n stands exactly once in spl_left or spl_right (never
\* in both, never left out, the seeds included), and spl_nleft + spl_nright
\* = n, on the two-entry path, the all-equal path and the general path.
C24_picksplit_partitions ==
  spc = "done" =>
    /\ spl.spl_nleft = Len(spl.spl_left)
    /\ spl.spl_nright = Len(spl.spl_right)
    /\ spl.spl_nleft + spl.spl_nright = Len(sentv)
    /\ \A k \in 1..Len(sentv) :
         Occurrences(spl.spl_left, k) + Occurrences(spl.spl_right, k) = 1
    /\ \A j \in 1..Len(spl.spl_left) : spl.spl_left[j] \in 1..Len(sentv)
    /\ \A j \in 1..Len(spl.spl_right) : spl.spl_right[j] \in 1..Len(sentv)

\* A page of MaxPage entries split on the general path (the scan found
\* two different bounds), with both sides holding more than their seed.
C24_witness ==
  /\ spc = "done"
  /\ Len(sentv) = MaxPage
  /\ ~PageScan.allisequal
  /\ spl.spl_nleft >= 2
  /\ spl.spl_nright >= 2
  /\ spl.spl_nleft + spl.spl_nright = Len(sentv)

\* The entry at offset k of the page, deserialised.
PageEntry(k) == deserialize_fprint(sentv[k])

\* The envelope of key u holds the songlen of leaf record e, respectively
\* the whole envelope of node key e.
EnvelopeHolds(u, e) ==
  IF sleaf
  THEN u.min_songlen <= e.songlen /\ e.songlen <= u.max_songlen
  ELSE /\ u.min_songlen <= AsUnion(e).min_songlen
       /\ AsUnion(e).max_songlen <= u.max_songlen

SideCovered(key, side) ==
  \A j \in 1..Len(side) :
    /\ BitCovers(key, PageEntry(side[j]))
    /\ EnvelopeHolds(key, PageEntry(side[j]))

\* C25: after fprint_picksplit each side's key covers every entry assigned
\* to that side, the seed included: its r, dom and cprint are supersets of
\* the entry's, and its [min_songlen, max_songlen] holds the songlen of
\* every assigned leaf, respectively the whole envelope of every assigned
\* node key, for leaf splits and internal splits alike.
C25_side_keys_cover ==
  spc = "done" =>
    /\ SideCovered(spl.spl_ldatum, spl.spl_left)
    /\ SideCovered(spl.spl_rdatum, spl.spl_right)

\* ------------------------------------------------------------------------
\* An indexed search against the operator it stands for (part_002:
\* fprint_compress, fprint_consistent on the leaf key, and fprint_eq,
\* fprint_match, fprint_neq on the records)
\* ------------------------------------------------------------------------
\* The answer of the index for stored record x and query q, and the
\* answers of the operators for (q, x).
IndexAndOperators(q, x, sn) ==
  [index |-> fprint_consistent(
               [leaf |-> TRUE,
                key |-> fprint_compress([leafkey |-> TRUE, key |-> x]).key],
               q, sn),
   scalar |-> ScalarOps(q, x)]

\* Stored records of several lengths, and for each of them a query that has
\* the record's codewords inside the key window and others outside it.
AgreeLens == {1, 240, 241, 704, MaxStoredLen}
AgreeRecords == {x \in StoredRecords : x.cprint_len \in AgreeLens}
SameInWindow(x) ==
  [x EXCEPT !.cprint = [i \in 1..x.cprint_len |->
                          IF i > WindowStart(x.cprint_len)
                             /\ i <= WindowEnd(x.cprint_len)
                          THEN x.cprint[i] ELSE -x.cprint[i] - 1]]
AgreeQueries == AgreeRecords \cup {SameInWindow(x) : x \in AgreeRecords}

InitAgree ==
  /\ hop = "search"
  /\ harg \in [q : AgreeQueries, x : AgreeRecords, sn : DescendStrategies]
  /\ hret = None
  /\ hpc = "call"
  /\ HostRestIdle

CallSearch ==
  /\ hpc = "call"
  /\ hop = "search"
  /\ hret' = IndexAndOperators(harg.q, harg.x, harg.sn)
  /\ hpc' = "done"
  /\ UNCHANGED <<hop, harg, hostRest>>

NextAgree == CallSearch

SpecAgree == InitAgree /\ [][NextAgree]_vars

\* The operator a strategy number stands for.
OperatorAnswer(sn, scalar) ==
  CASE sn = FPStrategyEQ -> scalar.eq
    [] sn = FPStrategyNEQ -> scalar.neq
    [] OTHER -> scalar.match

\* C26: the index and the scalar operators agree: for every query q and
\* stored record x, fprint_consistent on the leaf key fprint_compress(x)
\* with strategy EQ, MATCH or NEQ reports recheck = false and returns the
\* boolean that fprint_eq, fprint_match or fprint_neq returns for the full
\* records (q, x), records whose cprint_len exceeds 240 included.
C26_index_agrees_with_operators ==
  (hpc = "done" /\ hop = "search")
    => /\ ~hret.index.recheck
       /\ hret.index.retval = OperatorAnswer(harg.sn, hret.scalar)

\* ------------------------------------------------------------------------
\* Scoring a key against another key as it would be with one more entry
\* (fplib.c: try_match_merges beside fprint_merge_one and match_merges)
\* ------------------------------------------------------------------------
\* A copy of key u in a zeroed buffer of n codewords, n >= u.cprint_len.
ExtendedCopy(u, n) ==
  [u EXCEPT !.cprint_len = n,
            !.cprint = [l \in 1..n |->
                          IF l <= u.cprint_len THEN u.cprint[l] ELSE 0]]

\* Record a merged into such a copy of u.
MergedCopy(u, a) ==
  fprint_merge_one(ExtendedCopy(u, max_st(u.cprint_len, a.cprint_len)), a)

\* Prints of one to MaxCpLen + 1 codewords: all -8, all 12, or -8 and 12
\* in turn.
TryPrints ==
  UNION {{[k \in 1..n |-> -8], [k \in 1..n |-> 12],
          [k \in 1..n |-> IF k % 2 = 1 THEN -8 ELSE 12]} :
           n \in 1..(MaxCpLen + 1)}
TryKeys1 ==
  {SeedKeyOf(NewRecord(100, seed, cp), 100) : seed \in {0, 255},
                                             cp \in TryPrints}
TryKeys2 ==
  {SeedKeyOf(NewRecord(100, 0, cp), 100) : cp \in TryPrints}
TryRecords ==
  {NewRecord(songlen, 255, cp) :
     songlen \in {100}, cp \in TryPrints}
  \cup {NewRecord(200, 0, <<12>>)}

InitTry ==
  /\ hop = "try_match_merges"
  /\ harg \in [u1 : TryKeys1, u2 : TryKeys2, a : TryRecords]
              \cup [u1 : {SeedKeyOf(NewRecord(100, 0, <<12, -8>>), 100)},
                    u2 : {SeedKeyOf(NewRecord(200, 0, <<12>>), 200)},
                    a : TryRecords]
  /\ hret = None
  /\ hpc = "call"
  /\ HostRestIdle

CallTryMatchMerges ==
  /\ hpc = "call"
  /\ hop = "try_match_merges"
  /\ hret' = try_match_merges(harg.u1, harg.u2, harg.a)
  /\ hpc' = "done"
  /\ UNCHANGED <<hop, harg, hostRest>>

NextTry == CallTryMatchMerges

SpecTry == InitTry /\ [][NextTry]_vars

\* C27: try_match_merges(u1, u2, a) returns what match_merges returns for
\* u1 against the key got by OR-merging a into a copy of u2 whose cprint is
\* zero-extended to max(|u2.cprint|, |a.cprint|), for every combination of
\* the three cprint lengths, when the songlen envelopes are not disjoint;
\* its three arguments are as they were.
C27_try_is_merge_then_match ==
  (hpc = "done" /\ hop = "try_match_merges"
   /\ ~EnvelopesDisjoint(harg.u1, MergedCopy(harg.u2, harg.a)))
    => hret = match_merges(harg.u1, MergedCopy(harg.u2, harg.a))

\* u1 is the longest print, a is longer than u2, so the tail of a is scored
\* by its own loop; the score is neither 0 nor 1.
C27_witness ==
  /\ hpc = "done"
  /\ hop = "try_match_merges"
  /\ harg.u1.cprint_len > harg.a.cprint_len
  /\ harg.a.cprint_len > harg.u2.cprint_len
  /\ ~EnvelopesDisjoint(harg.u1, MergedCopy(harg.u2, harg.a))
  /\ hret = match_merges(harg.u1, MergedCopy(harg.u2, harg.a))
  /\ hret > 0
  /\ hret < SCALE

\* ------------------------------------------------------------------------
\* The scan that opens fprint_picksplit (part_002): the bounds of the page
\* and the two seeds
\* ------------------------------------------------------------------------
\* Pages of two or three entries: leaf records by songlen, node keys by
\* envelope, in every order.
ScanSonglens == {50, 100, 200}
ScanEnvelopes == {<<100, 100>>, <<100, 200>>, <<50, 300>>, <<200, 200>>}
ScanLeaves == {NewRecord(s, 0, <<12>>) : s \in ScanSonglens}
ScanNodeKeys ==
  {AsFPrint([SeedKeyOf(NewRecord(0, 0, <<12>>), e[1])
               EXCEPT !.max_songlen = e[2]]) : e \in ScanEnvelopes}
ScanPages(S) == UNION {[1..n -> S] : n \in 2..3}

InitScan ==
  /\ hop = "scan"
  /\ harg \in [leaf : {TRUE}, entv : ScanPages(ScanLeaves)]
              \cup [leaf : {FALSE}, entv : ScanPages(ScanNodeKeys)]
  /\ hret = None
  /\ hpc = "call"
  /\ HostRestIdle

\* fprint_picksplit up to the test of n_entries.
CallScan ==
  /\ hpc = "call"
  /\ hop = "scan"
  /\ hret' = Scan([k \in 1..Len(harg.entv) |->
                     deserialize_fprint(harg.entv[k])], harg.leaf)
  /\ hpc' = "done"
  /\ UNCHANGED <<hop, harg, hostRest>>

NextScan == CallScan

SpecScan == InitScan /\ [][NextScan]_vars

\* The lower and the upper songlen bound of the entry at C index ix.
LowerBound(ix) == harg.entv[ix + 1].songlen
UpperBound(ix) ==
  IF harg.leaf THEN harg.entv[ix + 1].songlen
  ELSE AsUnion(harg.entv[ix + 1]).max_songlen

\* C28: after the scan of fprint_picksplit min_songlen is the smallest
\* lower bound and max_songlen the largest upper bound over all entries of
\* the vector, seed_left is an entry with that lower bound and seed_right
\* one with that upper bound, for leaf vectors and for vectors of node keys
\* (a node key with both the smallest lower and the largest upper bound
\* included); and the seeds differ whenever the scan leads to the general
\* path.
C28_scan_finds_extremes ==
  (hpc = "done" /\ hop = "scan")
    => /\ \A ix \in 0..(Len(harg.entv) - 1) :
            /\ hret.min_songlen <= LowerBound(ix)
            /\ UpperBound(ix) <= hret.max_songlen
       /\ LowerBound(hret.seed_left) = hret.min_songlen
       /\ UpperBound(hret.seed_right) = hret.max_songlen
       /\ (Len(harg.entv) >= 3 /\ ~hret.allisequal)
            => hret.seed_left # hret.seed_right

\* ------------------------------------------------------------------------
\* Making a record (fplib.c: new_fprint, fprint_from_string)
\* ------------------------------------------------------------------------
\* The largest print size asked of new_fprint; the smallest is its
\* negative.
MaxRequest == 40

\* The sample text whole, and cut short inside its cprint list, which then
\* lacks the ")".
CutTexts ==
  {SampleText}
  \cup {Cut(SampleText, n) : n \in ListStart..(Len(SampleText) - 2)}

InitCreate ==
  /\ \/ /\ hop \in {"new_fprint"}
        /\ harg \in (-MaxRequest)..MaxRequest
     \/ /\ hop \in {"fprint_from_string"}
        /\ harg \in {mem \o tail : mem \in CutTexts, tail \in Behind}
  /\ hret = None
  /\ hpc = "call"
  /\ HostRestIdle

CallNewFprint ==
  /\ hpc = "call"
  /\ hop = "new_fprint"
  /\ hret' = new_fprint(harg)
  /\ hpc' = "done"
  /\ UNCHANGED <<hop, harg, hostRest>>

CallFromString ==
  /\ hpc = "call"
  /\ hop = "fprint_from_string"
  /\ hret' = fprint_from_string(harg)
  /\ hpc' = "done"
  /\ UNCHANGED <<hop, harg, hostRest>>

NextCreate == CallNewFprint \/ CallFromString

SpecCreate == InitCreate /\ [][NextCreate]_vars

\* C29: every FP returned by new_fprint, for any requested size, 0 and
\* negative sizes included, and every FP returned by fprint_from_string,
\* also for a text whose cprint list lacks the closing ")", has cprint_len
\* >= 1.
C29_cprint_len_positive ==
  /\ (hpc = "done" /\ hop = "new_fprint") => hret.cprint_len >= 1
  /\ (hpc = "done" /\ hop = "fprint_from_string" /\ ~hret.null)
       => hret.fp.cprint_len >= 1

\* ------------------------------------------------------------------------
\* The assignment loop of fprint_picksplit on entries as near to one end of
\* the songlen range as to the other: each is placed by its two scores and
\* the sizes of the sides
\* ------------------------------------------------------------------------
\* The most entries the loop places.
MaxAssign == 12

\* The scores try_match_merges may return, in tenths.
TenthScores == {k * (SCALE \div 10) : k \in 0..10}

\* The two seeds are placed: n_left = n_right = 1.
InitAssign ==
  /\ hop = "assign"
  /\ harg = [l |-> 0, tmatch_left |-> 0, tmatch_right |-> 0]
  /\ hret = [n_left |-> 1, n_right |-> 1]
  /\ hpc = "loop"
  /\ HostRestIdle

\* One round of the loop on an entry with scores tmatch_left and
\* tmatch_right.
AssignTie(tmatch_left, tmatch_right) ==
  /\ hpc = "loop"
  /\ hop = "assign"
  /\ harg.l < MaxAssign
  /\ harg' = [l |-> harg.l + 1, tmatch_left |-> tmatch_left,
              tmatch_right |-> tmatch_right]
  /\ hret' = IF TieGoesLeft(tmatch_left, tmatch_right, hret.n_left,
                            hret.n_right)
             THEN [hret EXCEPT !.n_left = @ + 1]
             ELSE [hret EXCEPT !.n_right = @ + 1]
  /\ UNCHANGED <<hop, hpc, hostRest>>

NextAssign ==
  \E tmatch_left \in TenthScores, tmatch_right \in TenthScores :
    AssignTie(tmatch_left, tmatch_right)

SpecAssign == InitAssign /\ [][NextAssign]_vars

\* C30: in the assignment loop of fprint_picksplit, when every entry but
\* the seeds is as far in songlen from one extreme as from the other and
\* so is placed by the comparison of its try_match_merges scores with the
\* WISH term, |n_left - n_right| never exceeds 3 at any step, for any
\* scores in [0, 1].
C30_sides_within_three ==
  (hop = "assign")
    => /\ hret.n_left - hret.n_right <= 3
       /\ hret.n_right - hret.n_left <= 3
       /\ hret.n_left + hret.n_right = harg.l + 2

\* The left side is three entries ahead after a round that placed an entry
\* there against the WISH term.
C30_witness ==
  /\ hop = "assign"
  /\ harg.l >= 3
  /\ hret.n_left - hret.n_right = 3
  /\ harg.tmatch_left < harg.tmatch_right

IdleAll ==
  /\ IdleMatch /\ IdleMerge /\ IdleKeys /\ IdleUnion /\ IdleSplit
  /\ IdleCodec /\ IdleHost

=============================================================================
